---- MODULE Spec2Model ----
(***************************************************************************)
(* Model of the statement pipeline of ai-finance-tracker: the CSV parser   *)
(* (lib/parsers/csv-parser.ts), the categorizer (lib/ai/categorizer.ts),   *)
(* the dedup hash and the POST /api/transactions route.                    *)
(*                                                                         *)
(* A JavaScript string is modelled as a sequence of one-character strings, *)
(* so that includes, trim, toLowerCase, replace and parseFloat are         *)
(* computed character by character as the runtime computes them.           *)
(***************************************************************************)
EXTENDS Integers, Sequences, FiniteSets, TLC

VARIABLES
    fileContent,    \* parseCSV: the uploaded file, as Papa Parse splits it
    parseResult,    \* parseCSV: the CSVParseResult returned, or NoResult
    mapHeaders,     \* detectColumnMappings: the headers given
    mapResult,      \* detectColumnMappings: the map returned, or NoResult
    response,       \* parseCategorizationResponse: the provider's text
    categorization, \* parseCategorizationResponse: the result, or NoResult
    env,            \* process.env: which credentials are set
    calls,          \* the categorizeTransaction calls, each with its position
    hashArgs,       \* generateHash: the tuples hashed
    hashKeys,       \* generateHash: their keys, or NoResult
    dbUsers,        \* the user table of the store
    dbTransactions, \* the transaction table of the store
    requests,       \* the POST /api/transactions requests, each with its position
    cellText,       \* parseDate, parseAmount: the cell given, as its pieces
    cellValue,      \* parseDate, parseAmount: the value returned, or NoResult
    timeZone,       \* the zone of the process: its hours east of UTC
    ruleArgs,       \* ruleBasedCategorization: the arguments given
    ruleResult      \* ruleBasedCategorization: the result, or NoResult

parseVars == <<fileContent, parseResult>>
mapVars   == <<mapHeaders, mapResult>>
respVars  == <<response, categorization>>
catVars   == <<env, calls>>
hashVars  == <<hashArgs, hashKeys>>
postVars  == <<dbUsers, dbTransactions, requests>>
cellVars  == <<cellText, cellValue, timeZone>>
ruleVars  == <<ruleArgs, ruleResult>>

vars == <<parseVars, mapVars, respVars, catVars, hashVars, postVars, cellVars, ruleVars>>

NoResult == [pending |-> TRUE]

(***************************************************************************)
(* Strings                                                                 *)
(***************************************************************************)
Digits == <<"0","1","2","3","4","5","6","7","8","9">>

UpperCase == <<"A","B","C","D","E","F","G","H","I","J","K","L","M",
               "N","O","P","Q","R","S","T","U","V","W","X","Y","Z">>

LowerCase == <<"a","b","c","d","e","f","g","h","i","j","k","l","m",
               "n","o","p","q","r","s","t","u","v","w","x","y","z">>

WhiteSpace == {" ", "\t"}

DigitSet == {Digits[i] : i \in 1..Len(Digits)}

IsDigit(c) == c \in DigitSet

DigitValue == [c \in DigitSet |-> (CHOOSE i \in 1..Len(Digits) : Digits[i] = c) - 1]

DigitVal(c) == DigitValue[c]

UpperSet == {UpperCase[i] : i \in 1..Len(UpperCase)}

LowerOf == [c \in UpperSet |-> LowerCase[CHOOSE i \in 1..Len(UpperCase) : UpperCase[i] = c]]

LowerChar(c) == IF c \in UpperSet THEN LowerOf[c] ELSE c

\* the function f on 1..n as an explicit sequence
AsSequence(f) == <<>> \o f

\* String.prototype.toLowerCase
ToLowerCase(s) == AsSequence([i \in 1..Len(s) |-> LowerChar(s[i])])

RECURSIVE TrimStart(_)
TrimStart(s) ==
    IF s # <<>> /\ Head(s) \in WhiteSpace THEN TrimStart(Tail(s)) ELSE s

RECURSIVE TrimEnd(_)
TrimEnd(s) ==
    IF s # <<>> /\ s[Len(s)] \in WhiteSpace
    THEN TrimEnd(SubSeq(s, 1, Len(s) - 1))
    ELSE s

\* String.prototype.trim
Trim(s) == TrimEnd(TrimStart(s))

\* String.prototype.includes
Includes(s, v) ==
    /\ Len(v) <= Len(s)
    /\ \E i \in 0..(Len(s) - Len(v)) : \A k \in 1..Len(v) : s[i + k] = v[k]

\* value || fallback, for string values ("" and undefined are falsy)
OrElse(s, fallback) == IF s = <<>> THEN fallback ELSE s

Min(S) == CHOOSE x \in S : \A y \in S : x <= y

(***************************************************************************)
(* Numbers: a JavaScript number is NaN or the decimal m * 10^-e, kept      *)
(* normalised (no trailing zero in the fraction).                          *)
(***************************************************************************)
NaN == [t |-> "NaN"]

RECURSIVE Num(_, _)
Num(m, e) ==
    IF e > 0 /\ m % 10 = 0
    THEN Num(m \div 10, e - 1)
    ELSE [t |-> "number", m |-> m, e |-> e]

isNaN(n) == n.t = "NaN"

(***************************************************************************)
(* Dates: the value of new Date(text), Invalid Date or a calendar day at   *)
(* midnight of a zone.  The runtime's parser is modelled for the numeric   *)
(* forms the parser's callers use; any other text is Invalid Date.         *)
(***************************************************************************)
InvalidDate == [t |-> "Invalid Date"]

RECURSIVE StrToNat(_)
StrToNat(s) ==
    IF s = <<>> THEN 0
    ELSE 10 * StrToNat(SubSeq(s, 1, Len(s) - 1)) + DigitVal(s[Len(s)])

AllDigits(s) == s # <<>> /\ \A i \in 1..Len(s) : IsDigit(s[i])

DateSeparators == {"/", "-"}

\* The three groups of (\d+)[\/\-](\d+)[\/\-](\d+), or <<>> when the text
\* has another shape.
DateGroups(s) ==
    LET seps == {i \in 1..Len(s) : s[i] \in DateSeparators}
    IN  IF Cardinality(seps) # 2 THEN <<>>
        ELSE LET a  == Min(seps)
                 b  == Min(seps \ {a})
                 p1 == SubSeq(s, 1, a - 1)
                 p2 == SubSeq(s, a + 1, b - 1)
                 p3 == SubSeq(s, b + 1, Len(s))
             IN  IF AllDigits(p1) /\ AllDigits(p2) /\ AllDigits(p3)
                 THEN <<p1, p2, p3>>
                 ELSE <<>>

\* the groups g when their lengths are in n1, n2 and n3, <<>> otherwise
Shaped(g, n1, n2, n3) ==
    IF g # <<>> /\ Len(g[1]) \in n1 /\ Len(g[2]) \in n2 /\ Len(g[3]) \in n3
    THEN g ELSE <<>>

\* /^(\d{1,2})[\/\-](\d{1,2})[\/\-](\d{4})$/
MatchMDY(s) == Shaped(DateGroups(s), 1..2, 1..2, {4})

\* /^(\d{4})[\/\-](\d{1,2})[\/\-](\d{1,2})$/
MatchYMD(s) == Shaped(DateGroups(s), {4}, 1..2, 1..2)

CalendarDay(y, m, d, zone) ==
    IF m \in 1..12 /\ d \in 1..31
    THEN [t |-> "date", y |-> y, m |-> m, d |-> d, zone |-> zone]
    ELSE InvalidDate

\* YYYY-MM-DD is the ISO date-only form, midnight UTC; the other numeric
\* forms go through the legacy parser, midnight local time
ZoneOf(s) == IF Len(s) = 10 /\ s[5] = "-" /\ s[8] = "-" THEN "UTC" ELSE "local"

DateFromGroups(ymd, mdy, zone) ==
    IF ymd # <<>>
    THEN CalendarDay(StrToNat(ymd[1]), StrToNat(ymd[2]), StrToNat(ymd[3]), zone)
    ELSE IF mdy # <<>>
    THEN CalendarDay(StrToNat(mdy[3]), StrToNat(mdy[1]), StrToNat(mdy[2]), "local")
    ELSE InvalidDate

\* new Date(text)
NewDate(s) == DateFromGroups(MatchYMD(s), MatchMDY(s), ZoneOf(s))

Slash == <<"/">>

\* if (!isNaN(date1.getTime())) return date1, else go on to date2
FirstValid(date1, date2) == IF date1 # InvalidDate THEN date1 ELSE date2

\* parseDate's second attempt, for one of its two patterns
TryFormat(g) ==
    IF g = <<>> THEN InvalidDate
    ELSE FirstValid(NewDate(g[1] \o Slash \o g[2] \o Slash \o g[3]),
                    NewDate(g[3] \o Slash \o g[1] \o Slash \o g[2]))

\* parseDate: InvalidDate stands for the null it returns
parseDate(dateStr) ==
    FirstValid(NewDate(dateStr),
               FirstValid(TryFormat(MatchMDY(dateStr)), TryFormat(MatchYMD(dateStr))))

IsLeapYear(y) == (y % 4 = 0 /\ y % 100 # 0) \/ y % 400 = 0

DaysInMonth(y, m) ==
    IF m = 2 THEN (IF IsLeapYear(y) THEN 29 ELSE 28)
    ELSE IF m \in {4, 6, 9, 11} THEN 30
    ELSE 31

PreviousDay(y, m, d) ==
    IF d > 1 THEN <<y, m, d - 1>>
    ELSE IF m > 1 THEN <<y, m - 1, DaysInMonth(y, m - 1)>>
    ELSE <<y - 1, 12, 31>>

Day(fields) == <<fields.y, fields.m, fields.d>>

Fields(day, hour) == [y |-> day[1], m |-> day[2], d |-> day[3], h |-> hour]

\* the day and hour a date shows in UTC (getUTCDate, toISOString) in a
\* process offset hours east of UTC
UTCFields(date, offset) ==
    IF date.zone = "UTC" \/ offset = 0 THEN Fields(<<date.y, date.m, date.d>>, 0)
    ELSE IF offset > 0 THEN Fields(PreviousDay(date.y, date.m, date.d), 24 - offset)
    ELSE Fields(<<date.y, date.m, date.d>>, 0 - offset)

\* the day and hour a date shows in the zone of the process (getDate,
\* toDateString)
LocalFields(date, offset) ==
    IF date.zone = "local" \/ offset = 0 THEN Fields(<<date.y, date.m, date.d>>, 0)
    ELSE IF offset < 0 THEN Fields(PreviousDay(date.y, date.m, date.d), 24 + offset)
    ELSE Fields(<<date.y, date.m, date.d>>, offset)

(***************************************************************************)
(* Amounts                                                                 *)
(***************************************************************************)
RECURSIVE DigitRun(_, _)
\* the number of digits of s from position i on
DigitRun(s, i) ==
    IF i <= Len(s) /\ IsDigit(s[i]) THEN 1 + DigitRun(s, i + 1) ELSE 0

\* whether the whole text is a decimal number: sign, digits, point, digits
IsDecimalNumber(s) ==
    LET sign == IF s # <<>> /\ s[1] \in {"+", "-"} THEN 1 ELSE 0
        ip   == DigitRun(s, sign + 1)
        dot  == sign + ip + 1 <= Len(s) /\ s[sign + ip + 1] = "."
        fp   == IF dot THEN DigitRun(s, sign + ip + 2) ELSE 0
    IN  /\ ip + fp > 0
        /\ sign + ip + (IF dot THEN 1 ELSE 0) + fp = Len(s)

INFINITY_TEXT == <<"I","n","f","i","n","i","t","y">>

\* Infinity and -Infinity
Infinity(negative) == [t |-> "Infinity", negative |-> negative]

\* whether the text from position i on starts with prefix
StartsWithAt(s, i, prefix) ==
    /\ i + Len(prefix) - 1 <= Len(s)
    /\ \A k \in 1..Len(prefix) : s[i + k - 1] = prefix[k]

\* parseFloat: the value of the longest prefix that is a decimal literal
\* (sign, digits, point, digits) or a signed "Infinity", NaN when there is
\* none.  Exponents are left out: no modelled text holds an "e" after a digit.
parseFloat(s) ==
    LET t    == TrimStart(s)
        sign == IF t # <<>> /\ t[1] \in {"+", "-"} THEN 1 ELSE 0
        ip   == DigitRun(t, sign + 1)
        dot  == sign + ip + 1 <= Len(t) /\ t[sign + ip + 1] = "."
        fp   == IF dot THEN DigitRun(t, sign + ip + 2) ELSE 0
        mag  == StrToNat(SubSeq(t, sign + 1, sign + ip)
                         \o SubSeq(t, sign + ip + 2, sign + ip + 1 + fp))
    IN  IF StartsWithAt(t, sign + 1, INFINITY_TEXT)
        THEN Infinity(sign = 1 /\ t[1] = "-")
        ELSE IF ip = 0 /\ fp = 0 THEN NaN
        ELSE Num(IF sign = 1 /\ t[1] = "-" THEN 0 - mag ELSE mag, fp)

\* the characters the replace() of parseAmount removes: "GBP" and "EUR"
\* stand for the pound and the euro sign
CurrencyNoise == {"$", "GBP", "EUR", ","} \cup WhiteSpace

StripNoise(s) == SelectSeq(s, LAMBDA c : c \notin CurrencyNoise)

parseAmount_NoParentheses(amountStr) == parseFloat(StripNoise(amountStr))

parseAmount(amountStr) ==
    LET cleaned == StripNoise(amountStr)
        negated == IF Len(cleaned) >= 2 /\ cleaned[1] = "(" /\ cleaned[Len(cleaned)] = ")"
                   THEN <<"-">> \o SubSeq(cleaned, 2, Len(cleaned) - 1)
                   ELSE cleaned
    IN  parseFloat(negated)

(***************************************************************************)
(* Column mapper                                                           *)
(***************************************************************************)
COLUMN_MAPPINGS == [
    date |-> <<
        <<"d","a","t","e">>,
        <<"t","r","a","n","s","a","c","t","i","o","n"," ","d","a","t","e">>,
        <<"p","o","s","t","e","d"," ","d","a","t","e">>,
        <<"t","r","a","n","s"," ","d","a","t","e">>,
        <<"p","o","s","t","i","n","g"," ","d","a","t","e">> >>,
    merchant |-> <<
        <<"m","e","r","c","h","a","n","t">>,
        <<"d","e","s","c","r","i","p","t","i","o","n">>,
        <<"p","a","y","e","e">>,
        <<"n","a","m","e">>,
        <<"v","e","n","d","o","r">> >>,
    description |-> <<
        <<"d","e","s","c","r","i","p","t","i","o","n">>,
        <<"m","e","m","o">>,
        <<"d","e","t","a","i","l","s">>,
        <<"n","o","t","e","s">> >>,
    amount |-> <<
        <<"a","m","o","u","n","t">>,
        <<"v","a","l","u","e">>,
        <<"t","r","a","n","s","a","c","t","i","o","n"," ","a","m","o","u","n","t">>,
        <<"d","e","b","i","t">>,
        <<"c","r","e","d","i","t">> >> ]

\* variations.some((v) => header.toLowerCase().includes(v))
MatchesField(header, field) ==
    \E k \in 1..Len(COLUMN_MAPPINGS[field]) :
        Includes(ToLowerCase(header), COLUMN_MAPPINGS[field][k])

\* headers.find(...): the index of the first header, in file order, that
\* matches the field; 0 when find returns undefined
FindHeader(headers, field) ==
    LET hits == {j \in 1..Len(headers) : MatchesField(headers[j], field)}
    IN  IF hits = {} THEN 0 ELSE Min(hits)

\* Object.entries(COLUMN_MAPPINGS): the fields in the order of their keys
FieldEntries == <<"date", "merchant", "description", "amount">>

\* if (match) { map[field] = match }
SetIfMatch(map, headers, field, match) ==
    IF match = 0 THEN map ELSE (field :> headers[match]) @@ map

RECURSIVE MapFields(_, _, _)
\* the for loop of detectColumnMappings, from the i-th field on
MapFields(headers, i, map) ==
    IF i > Len(FieldEntries) THEN map
    ELSE MapFields(headers, i + 1,
                   SetIfMatch(map, headers, FieldEntries[i],
                              FindHeader(headers, FieldEntries[i])))

\* detectColumnMappings: a field without a match is no key of the map
detectColumnMappings(headers) == MapFields(headers, 1, <<>>)

(***************************************************************************)
(* Papa.parse(fileContent, {header, skipEmptyLines, transformHeader}).     *)
(* The file is given as its delimiter-split lines: headers is line 1 and   *)
(* lines[i] is line i + 1, each a sequence of cells.                       *)
(***************************************************************************)
EmptyLine == << <<>> >>

transformHeader_AsIs(header) == header

\* transformHeader: (header) => header.trim().toLowerCase()
transformHeader(header) == ToLowerCase(Trim(header))

PapaFields(file) ==
    AsSequence([j \in 1..Len(file.headers) |-> transformHeader(file.headers[j])])

\* skipEmptyLines: a line that is one empty field is dropped
PapaLines(file) == SelectSeq(file.lines, LAMBDA line : line # EmptyLine)

\* a data row: the object keyed by header; cells beyond the headers are not
\* keyed by any header and a short line leaves its last keys undefined
PapaRow(fields, line) ==
    LET n == IF Len(line) < Len(fields) THEN Len(line) ELSE Len(fields)
    IN  [h \in {fields[j] : j \in 1..n} |->
            line[CHOOSE j \in 1..n : fields[j] = h /\ \A k \in (j + 1)..n : fields[k] # h]]

PapaData(file) ==
    LET lines  == PapaLines(file)
        fields == PapaFields(file)
    IN  AsSequence([i \in 1..Len(lines) |-> PapaRow(fields, lines[i])])

RECURSIVE PapaErrorsFrom(_, _, _)
\* result.errors: one FieldMismatch error for each data row whose number of
\* fields differs from the number of headers, with its index in data
PapaErrorsFrom(lines, n, i) ==
    IF i > Len(lines) THEN <<>>
    ELSE (IF Len(lines[i]) < n
          THEN << [row |-> i - 1, message |-> "Too few fields"] >>
          ELSE IF Len(lines[i]) > n
          THEN << [row |-> i - 1, message |-> "Too many fields"] >>
          ELSE <<>>) \o PapaErrorsFrom(lines, n, i + 1)

PapaParse(file) ==
    [ data   |-> PapaData(file),
      errors |-> PapaErrorsFrom(PapaLines(file), Len(file.headers), 1),
      meta   |-> [fields |-> PapaFields(file)] ]

(***************************************************************************)
(* Statement parser                                                        *)
(***************************************************************************)
Unknown == <<"U","n","k","n","o","w","n">>

UNDEFINED_TEXT == <<"u","n","d","e","f","i","n","e","d">>

\* the property key of row[columnMap[field]]: for a field that is not mapped
\* the key is undefined, which names the property "undefined"
CellKey(columnMap, field) ==
    IF field \in DOMAIN columnMap THEN columnMap[field] ELSE UNDEFINED_TEXT

\* row[columnMap[field]]: the empty string stands for undefined too, both
\* being falsy and used for nothing else
Cell(row, columnMap, field) ==
    IF CellKey(columnMap, field) \in DOMAIN row
    THEN row[CellKey(columnMap, field)]
    ELSE <<>>

\* the body of parseRow once its cells are read
RowOutcome(row, dateStr, amountStr, merchant, description, date, amount) ==
    IF dateStr = <<>> \/ amountStr = <<>>
    THEN [kind |-> "null"]
    ELSE IF date = InvalidDate
    THEN [kind |-> "throw", message |-> "Invalid date format", text |-> dateStr]
    ELSE IF isNaN(amount)
    THEN [kind |-> "throw", message |-> "Invalid amount", text |-> amountStr]
    ELSE [kind |-> "transaction",
          transaction |->
            [ date        |-> date,
              merchant    |-> Trim(merchant),
              description |-> Trim(description),
              amount      |-> amount,
              rawData     |-> row ]]

\* parseRow: the transaction, null (a skipped row) or the Error thrown
parseRow(row, columnMap) ==
    RowOutcome(row,
               Cell(row, columnMap, "date"),
               Cell(row, columnMap, "amount"),
               OrElse(Cell(row, columnMap, "merchant"), Unknown),
               OrElse(Cell(row, columnMap, "description"),
                      OrElse(Cell(row, columnMap, "merchant"), Unknown)),
               parseDate(Cell(row, columnMap, "date")),
               parseAmount(Cell(row, columnMap, "amount")))

\* errors.push(`Row ${error.row}: ${error.message}`)
PapaErrorText(error) ==
    [from |-> "papa", row |-> error.row, message |-> error.message, text |-> <<>>]

\* errors.push(`Row ${index + 2}: ${error.message}`), index counting from 0
RowErrorText(index, thrown) ==
    [from |-> "row", row |-> index + 2, message |-> thrown.message, text |-> thrown.text]

RequiredColumnsError ==
    [from |-> "columns", row |-> 0,
     message |-> "Could not detect required columns", text |-> <<>>]

\* a catch block that swallows the Error
CatchRowError_Swallowed(errors, index, thrown) == errors

\* the catch block of the row loop
CatchRowError(errors, index, thrown) == Append(errors, RowErrorText(index, thrown))

\* the callback of result.data.forEach for one row, r being what parseRow
\* made of it
RowCallback(out, index, r) ==
    IF r.kind = "transaction"
    THEN [out EXCEPT !.transactions = Append(@, r.transaction)]
    ELSE IF r.kind = "throw"
    THEN [out EXCEPT !.errors = CatchRowError(@, index, r)]
    ELSE out

RECURSIVE ForEachRow_StopsAtError(_, _, _, _)
\* a loop that the first Error thrown by a row ends
ForEachRow_StopsAtError(data, columnMap, i, out) ==
    IF i > Len(data) \/ \E k \in 1..Len(out.errors) : out.errors[k].from = "row"
    THEN out
    ELSE ForEachRow_StopsAtError(data, columnMap, i + 1,
                                 RowCallback(out, i - 1, parseRow(data[i], columnMap)))

RECURSIVE ForEachRow(_, _, _, _)
\* result.data.forEach((row, index) => ...), from data[i] on
ForEachRow(data, columnMap, i, out) ==
    IF i > Len(data) THEN out
    ELSE ForEachRow(data, columnMap, i + 1,
                    RowCallback(out, i - 1, parseRow(data[i], columnMap)))

\* a return whose success tells that some row was parsed
ReturnResult_SuccessWithRows(out) ==
    [success |-> out.transactions # <<>>, transactions |-> out.transactions,
     errors |-> out.errors]

\* the return of the outer catch block
CaughtResult(message) ==
    [success |-> FALSE, transactions |-> <<>>,
     errors |-> << [from |-> "caught", row |-> 0, message |-> "Failed to parse CSV",
                    text |-> message] >>]

\* return { success: errors.length === 0, transactions, errors }
ReturnResult(out) ==
    [success |-> out.errors = <<>>, transactions |-> out.transactions, errors |-> out.errors]

\* the test with && in the place of ||
MissingRequiredColumn_Both(columnMap) ==
    "date" \notin DOMAIN columnMap /\ "amount" \notin DOMAIN columnMap

\* !columnMap.date || !columnMap.amount
MissingRequiredColumn(columnMap) ==
    "date" \notin DOMAIN columnMap \/ "amount" \notin DOMAIN columnMap

\* parseCSV from the column detection on
ParseRows(data, errors, columnMap) ==
    IF MissingRequiredColumn(columnMap)
    THEN [success |-> FALSE, transactions |-> <<>>,
          errors |-> Append(errors, RequiredColumnsError)]
    ELSE ReturnResult(ForEachRow(data, columnMap, 1,
                                 [transactions |-> <<>>, errors |-> errors]))

\* the errors pushed for result.errors
PapaErrorTexts(errors) == [i \in 1..Len(errors) |-> PapaErrorText(errors[i])]

\* parseCSV from the result of Papa.parse on
AfterPapaParse(result) ==
    ParseRows(result.data, PapaErrorTexts(result.errors),
              detectColumnMappings(result.meta.fields))

parseCSV(file) == AfterPapaParse(PapaParse(file))

(***************************************************************************)
(* The strings of the categorizer                                          *)
(***************************************************************************)
GROCERIES == <<"G","r","o","c","e","r","i","e","s">>

DINING == <<"D","i","n","i","n","g">>

TRANSPORT == <<"T","r","a","n","s","p","o","r","t">>

GAS == <<"G","a","s">>

SUBSCRIPTIONS == <<"S","u","b","s","c","r","i","p","t","i","o","n","s">>

INCOME == <<"I","n","c","o","m","e">>

UNCATEGORIZED == <<"U","n","c","a","t","e","g","o","r","i","z","e","d">>

AI_CATEGORIZATION ==
    <<"A","I"," ","c","a","t","e","g","o","r","i","z","a","t","i","o","n">>

FAILED_TO_PARSE ==
    <<"F","a","i","l","e","d"," ","t","o"," ","p","a","r","s","e"," ","A",
      "I"," ","r","e","s","p","o","n","s","e">>

KEYWORD_GROCERY ==
    <<"K","e","y","w","o","r","d"," ","m","a","t","c","h",":"," ","g","r",
      "o","c","e","r","y"," ","s","t","o","r","e">>

KEYWORD_DINING ==
    <<"K","e","y","w","o","r","d"," ","m","a","t","c","h",":"," ","d","i",
      "n","i","n","g"," ","e","s","t","a","b","l","i","s","h","m","e","n",
      "t">>

KEYWORD_GAS ==
    <<"K","e","y","w","o","r","d"," ","m","a","t","c","h",":"," ","g","a",
      "s"," ","s","t","a","t","i","o","n">>

KEYWORD_SUBSCRIPTION ==
    <<"K","e","y","w","o","r","d"," ","m","a","t","c","h",":"," ","s","u",
      "b","s","c","r","i","p","t","i","o","n"," ","s","e","r","v","i","c",
      "e">>

POSITIVE_AMOUNT ==
    <<"P","o","s","i","t","i","v","e"," ","a","m","o","u","n","t"," ","s",
      "u","g","g","e","s","t","s"," ","i","n","c","o","m","e">>

NO_MATCHING_RULES ==
    <<"N","o"," ","m","a","t","c","h","i","n","g"," ","r","u","l","e","s",
      " ","f","o","u","n","d">>

PETS == <<"P","e","t","s">>

\* the category taxonomy
CATEGORIES == {
    [name |-> <<"H","o","u","s","i","n","g">>,
     subcategories |-> {<<"R","e","n","t">>,
                        <<"M","o","r","t","g","a","g","e">>,
                        <<"U","t","i","l","i","t","i","e","s">>,
                        <<"M","a","i","n","t","e","n","a","n","c","e">>}],
    [name |-> GROCERIES, subcategories |-> {}],
    [name |-> DINING,
     subcategories |-> {<<"R","e","s","t","a","u","r","a","n","t","s">>,
                        <<"F","a","s","t"," ","F","o","o","d">>,
                        <<"C","o","f","f","e","e"," ","S","h","o","p","s">>}],
    [name |-> TRANSPORT,
     subcategories |-> {GAS,
                        <<"P","u","b","l","i","c"," ","T","r","a","n","s","i","t">>,
                        <<"P","a","r","k","i","n","g">>,
                        <<"R","i","d","e"," ","S","h","a","r","e">>}],
    [name |-> <<"S","h","o","p","p","i","n","g">>,
     subcategories |-> {<<"C","l","o","t","h","i","n","g">>,
                        <<"E","l","e","c","t","r","o","n","i","c","s">>,
                        <<"H","o","m","e"," ","G","o","o","d","s">>}],
    [name |-> <<"H","e","a","l","t","h">>,
     subcategories |-> {<<"M","e","d","i","c","a","l">>,
                        <<"P","h","a","r","m","a","c","y">>,
                        <<"F","i","t","n","e","s","s">>}],
    [name |-> SUBSCRIPTIONS,
     subcategories |-> {<<"S","t","r","e","a","m","i","n","g">>,
                        <<"S","o","f","t","w","a","r","e">>,
                        <<"M","e","m","b","e","r","s","h","i","p","s">>}],
    [name |-> <<"E","n","t","e","r","t","a","i","n","m","e","n","t">>,
     subcategories |-> {<<"M","o","v","i","e","s">>,
                        <<"E","v","e","n","t","s">>,
                        <<"H","o","b","b","i","e","s">>}],
    [name |-> <<"T","r","a","v","e","l">>,
     subcategories |-> {<<"F","l","i","g","h","t","s">>,
                        <<"H","o","t","e","l","s">>,
                        <<"V","a","c","a","t","i","o","n">>}],
    [name |-> INCOME,
     subcategories |-> {<<"S","a","l","a","r","y">>,
                        <<"F","r","e","e","l","a","n","c","e">>,
                        <<"I","n","v","e","s","t","m","e","n","t">>}],
    [name |-> <<"T","r","a","n","s","f","e","r","s">>, subcategories |-> {}] }

HIGH == <<"h","i","g","h">>

TEST == <<"T","e","s","t">>

WHOLE_FOODS == <<"W","h","o","l","e"," ","F","o","o","d","s">>

GROCERY == <<"G","r","o","c","e","r","y">>

ACME_CORP == <<"A","c","m","e"," ","C","o","r","p">>

PAYROLL == <<"P","a","y","r","o","l","l">>

NAN_TEXT == <<"N","a","N">>

NULL_TEXT == <<"n","u","l","l">>

DATE_15 == <<"2","0","2","4","-","0","1","-","1","5">>

DATE_16 == <<"2","0","2","4","-","0","1","-","1","6">>

CLERK_1 == <<"c","l","e","r","k","_","1">>

CLERK_2 == <<"c","l","e","r","k","_","2">>

CLERK_3 == <<"c","l","e","r","k","_","3">>

GROCERY_KEYWORDS == {
    <<"g","r","o","c","e","r","y">>,
    <<"m","a","r","k","e","t">>,
    <<"w","h","o","l","e"," ","f","o","o","d","s">>,
    <<"t","r","a","d","e","r"," ","j","o","e">> }

DINING_KEYWORDS == {
    <<"r","e","s","t","a","u","r","a","n","t">>,
    <<"c","a","f","e">>,
    <<"c","o","f","f","e","e">>,
    <<"f","o","o","d">> }

GAS_KEYWORDS == {
    <<"g","a","s">>,
    <<"f","u","e","l">>,
    <<"s","h","e","l","l">>,
    <<"c","h","e","v","r","o","n">> }

SUBSCRIPTION_KEYWORDS == {
    <<"n","e","t","f","l","i","x">>,
    <<"s","p","o","t","i","f","y">>,
    <<"s","u","b","s","c","r","i","p","t","i","o","n">>,
    <<"h","u","l","u">> }

(***************************************************************************)
(* JavaScript values as JSON.parse gives them: undefined (a missing key),  *)
(* null, a number or a string.                                             *)
(***************************************************************************)
Undefined == [t |-> "undefined"]

Null == [t |-> "null"]

JStr(chars) == [t |-> "string", v |-> chars]

\* the truthiness that || tests
Truthy(v) ==
    CASE v.t = "number" -> v.m # 0
      [] v.t = "string" -> v.v # <<>>
      [] OTHER          -> FALSE

\* a || b
Or(a, b) == IF Truthy(a) THEN a ELSE b

RECURSIVE Pow10(_)
Pow10(n) == IF n = 0 THEN 1 ELSE 10 * Pow10(n - 1)

\* a < b on numbers
Less(a, b) == a.m * Pow10(b.e) < b.m * Pow10(a.e)

\* ToNumber, the conversion Math.min and Math.max apply to an argument
ToNumber(v) ==
    CASE v.t = "number"    -> v
      [] v.t = "null"      -> Num(0, 0)
      [] v.t = "string"    -> IF Trim(v.v) = <<>> THEN Num(0, 0)
                              ELSE IF IsDecimalNumber(Trim(v.v)) THEN parseFloat(v.v)
                              ELSE NaN
      [] OTHER             -> NaN

MathMin(a, b) ==
    LET x == ToNumber(a)
        y == ToNumber(b)
    IN  IF isNaN(x) \/ isNaN(y) THEN NaN ELSE IF Less(y, x) THEN y ELSE x

MathMax(a, b) ==
    LET x == ToNumber(a)
        y == ToNumber(b)
    IN  IF isNaN(x) \/ isNaN(y) THEN NaN ELSE IF Less(x, y) THEN y ELSE x

(***************************************************************************)
(* Categorizer                                                             *)
(***************************************************************************)
\* The response text, as a sequence of tokens: an opening brace, a closing
\* brace, the member list of the JSON object ("M", whose keys and values are
\* the response's members) or a character of prose or code fencing ("x").
Tokens == {"{", "}", "M", "x"}

NoMatch == <<>>

\* text.match(/\{[\s\S]*\}/): the match runs from the first opening brace to
\* the last closing brace after it
JsonMatch(text) ==
    LET opens  == {i \in 1..Len(text) : text[i] = "{"}
        closes == {j \in 1..Len(text) : text[j] = "}"}
    IN  IF opens = {} \/ \A j \in closes : j < Min(opens)
        THEN NoMatch
        ELSE SubSeq(text, Min(opens), CHOOSE j \in closes : \A k \in closes : k <= j)

\* whether JSON.parse accepts the span: over these tokens the JSON texts are
\* the empty object and the object with the member list
JsonParses(span) == span = <<"{", "}">> \/ span = <<"{", "M", "}">>

NoMembers == [category |-> Undefined, subcategory |-> Undefined,
              confidence |-> Undefined, explanation |-> Undefined]

\* JSON.parse(span), for a span it accepts
JsonParse(span, members) == IF span = <<"{", "M", "}">> THEN members ELSE NoMembers

\* the result built from the parsed object
ResultFrom(result) ==
    [ category    |-> result.category,
      subcategory |-> Or(result.subcategory, Undefined),
      confidence  |-> MathMax(Num(0, 0), MathMin(Num(1, 0), Or(result.confidence, Num(5, 1)))),
      explanation |-> Or(result.explanation, JStr(AI_CATEGORIZATION)) ]

\* the result of the catch block
FailedToParse ==
    [ category    |-> JStr(UNCATEGORIZED),
      subcategory |-> Undefined,
      confidence  |-> Num(0, 0),
      explanation |-> JStr(FAILED_TO_PARSE) ]

parseCategorizationResponse(text, members) ==
    LET jsonMatch == JsonMatch(text)
    IN  IF jsonMatch = NoMatch \/ ~JsonParses(jsonMatch)
        THEN FailedToParse
        ELSE ResultFrom(JsonParse(jsonMatch, members))

Rule(category, subcategory, confidence, explanation) ==
    [ category |-> JStr(category), subcategory |-> subcategory,
      confidence |-> confidence, explanation |-> JStr(explanation) ]

IncludesAny(text, keywords) == \E k \in keywords : Includes(text, k)

\* amount > 0
IsPositive(amount) ==
    \/ amount.t = "number" /\ amount.m > 0
    \/ amount.t = "Infinity" /\ ~amount.negative

ruleBasedCategorization_DiningFirst(merchant, description, amount) ==
    LET text == ToLowerCase(merchant \o <<" ">> \o description)
    IN  IF IncludesAny(text, DINING_KEYWORDS)
        THEN Rule(DINING, Undefined, Num(6, 1), KEYWORD_DINING)
        ELSE IF IncludesAny(text, GROCERY_KEYWORDS)
        THEN Rule(GROCERIES, Undefined, Num(7, 1), KEYWORD_GROCERY)
        ELSE IF IncludesAny(text, GAS_KEYWORDS)
        THEN Rule(TRANSPORT, JStr(GAS), Num(7, 1), KEYWORD_GAS)
        ELSE IF IncludesAny(text, SUBSCRIPTION_KEYWORDS)
        THEN Rule(SUBSCRIPTIONS, Undefined, Num(8, 1), KEYWORD_SUBSCRIPTION)
        ELSE IF IsPositive(amount)
        THEN Rule(INCOME, Undefined, Num(5, 1), POSITIVE_AMOUNT)
        ELSE Rule(UNCATEGORIZED, Undefined, Num(0, 0), NO_MATCHING_RULES)

ruleBasedCategorization(merchant, description, amount) ==
    LET text == ToLowerCase(merchant \o <<" ">> \o description)
    IN  IF IncludesAny(text, GROCERY_KEYWORDS)
        THEN Rule(GROCERIES, Undefined, Num(7, 1), KEYWORD_GROCERY)
        ELSE IF IncludesAny(text, DINING_KEYWORDS)
        THEN Rule(DINING, Undefined, Num(6, 1), KEYWORD_DINING)
        ELSE IF IncludesAny(text, GAS_KEYWORDS)
        THEN Rule(TRANSPORT, JStr(GAS), Num(7, 1), KEYWORD_GAS)
        ELSE IF IncludesAny(text, SUBSCRIPTION_KEYWORDS)
        THEN Rule(SUBSCRIPTIONS, Undefined, Num(8, 1), KEYWORD_SUBSCRIPTION)
        ELSE IF IsPositive(amount)
        THEN Rule(INCOME, Undefined, Num(5, 1), POSITIVE_AMOUNT)
        ELSE Rule(UNCATEGORIZED, Undefined, Num(0, 0), NO_MATCHING_RULES)

(***************************************************************************)
(* The files parseCSV is given: a header line and up to MaxLines lines.    *)
(***************************************************************************)
MaxLines == 2

HeaderLines == {
    << <<"D","a","t","e">>, <<"M","e","r","c","h","a","n","t">>, <<"A","m","o","u","n","t">> >>,
    << <<"D","a","t","e">>, <<"A","m","o","u","n","t">>, <<"D","e","s","c","r","i","p","t","i","o","n">> >>,
    << <<"D","a","t","e">>, <<"M","e","r","c","h","a","n","t">>, <<"M","e","m","o">> >>,
    << <<"M","e","r","c","h","a","n","t">>, <<"M","e","m","o">>, <<"N","o","t","e","s">> >> }

DateCells == {
    <<>>,
    <<"2","0","2","4","-","0","1","-","1","5">>,
    <<"i","n","v","a","l","i","d","-","d","a","t","e">> }

AmountCells == {
    <<>>,
    <<"-","1","0",".","0","0">>,
    <<"1","2","a","b","c">>,
    INFINITY_TEXT,
    <<"n","o","t","-","a","-","n","u","m","b","e","r">> }

TextCells == { <<>>, <<" ","S","h","o","p"," ">> }

CellsFor(header) ==
    IF MatchesField(header, "date") THEN DateCells
    ELSE IF MatchesField(header, "amount") THEN AmountCells
    ELSE TextCells

RECURSIVE FullLines(_)
\* the lines with one cell for each header
FullLines(headers) ==
    IF headers = <<>> THEN { <<>> }
    ELSE { <<c>> \o rest : c \in CellsFor(Head(headers)), rest \in FullLines(Tail(headers)) }

\* a line is blank, has a cell for each header or lacks its last cell
LinesFor(headers) ==
    {EmptyLine}
    \cup FullLines(headers)
    \cup { SubSeq(l, 1, Len(l) - 1) : l \in FullLines(headers) }

LinesOf == [h \in HeaderLines |-> LinesFor(h)]

NoFile == [headers |-> <<>>, lines |-> <<>>]

(***************************************************************************)
(* Each specification below runs one component; the variables of the       *)
(* others stay as they are here.                                           *)
(***************************************************************************)
NoResponse == [text |-> <<>>, members |-> NoMembers]

IdleParse == fileContent = NoFile /\ parseResult = NoResult

IdleMap == mapHeaders = <<>> /\ mapResult = NoResult

IdleResp == response = NoResponse /\ categorization = NoResult

IdleCat == env = {} /\ calls = <<>>

IdleHash == hashArgs = <<>> /\ hashKeys = NoResult

IdlePost == dbUsers = {} /\ dbTransactions = <<>> /\ requests = <<>>

IdleCell == cellText = <<>> /\ cellValue = NoResult /\ timeZone = 0

NoArguments == [merchant |-> <<>>, description |-> <<>>, amount |-> Num(0, 0)]

IdleRule == ruleArgs = NoArguments /\ ruleResult = NoResult

(***************************************************************************)
(* Specification of the statement parser: a file with a header line is     *)
(* written line by line and, at any length up to MaxLines, parsed.         *)
(***************************************************************************)
InitParse ==
    /\ \E h \in HeaderLines : fileContent = [headers |-> h, lines |-> <<>>]
    /\ parseResult = NoResult
    /\ IdleMap /\ IdleResp /\ IdleCat /\ IdleHash /\ IdlePost /\ IdleCell /\ IdleRule

WriteLine ==
    /\ parseResult = NoResult
    /\ Len(fileContent.lines) < MaxLines
    /\ \E line \in LinesOf[fileContent.headers] :
          fileContent' = [fileContent EXCEPT !.lines = Append(@, line)]
    /\ UNCHANGED <<parseResult, mapVars, respVars, catVars, hashVars, postVars, cellVars, ruleVars>>

ParseCSV ==
    /\ parseResult = NoResult
    /\ parseResult' = parseCSV(fileContent)
    /\ UNCHANGED <<fileContent, mapVars, respVars, catVars, hashVars, postVars, cellVars, ruleVars>>

NextParse == WriteLine \/ ParseCSV

SpecParse == InitParse /\ [][NextParse]_vars

(***************************************************************************)
(* Specification of the columns of a statement: files whose header names   *)
(* vary in case, whitespace and wording, with up to MaxLines full lines.   *)
(***************************************************************************)
ColumnHeaderLines == {
    << <<"d","a","t","e">>, <<"m","e","r","c","h","a","n","t">>, <<"a","m","o","u","n","t">> >>,
    << <<" ","D","A","T","E"," ">>, <<"M","E","R","C","H","A","N","T">>,
       <<"A","m","o","u","n","t"," ">>, <<"E","x","t","r","a"," ","F","i","e","l","d">> >>,
    << <<"D","a","t","e">>, <<"D","e","s","c","r","i","p","t","i","o","n">>,
       <<"A","m","o","u","n","t">> >>,
    << <<"D","a","t","e">>, <<"M","e","m","o">>, <<"A","m","o","u","n","t">> >>,
    << <<"D","a","t","e">>, <<"A","m","o","u","n","t">>, <<"U","n","d","e","f","i","n","e","d">> >> }

ColumnTextCells == { <<>>, <<" "," ">>, <<" ","S","h","o","p"," ">> }

LEAK == <<"L","e","a","k">>

ColumnCellsFor(header) ==
    IF MatchesField(header, "date") THEN {<<>>, DATE_15}
    ELSE IF MatchesField(header, "amount") THEN {<<>>, <<"-","1","0",".","0","0">>}
    ELSE IF MatchesField(header, "merchant") \/ MatchesField(header, "description")
    THEN ColumnTextCells
    ELSE {LEAK}

RECURSIVE ColumnLines(_)
\* the lines with one cell for each header
ColumnLines(headers) ==
    IF headers = <<>> THEN { <<>> }
    ELSE { <<c>> \o rest : c \in ColumnCellsFor(Head(headers)),
                           rest \in ColumnLines(Tail(headers)) }

ColumnLinesOf == [h \in ColumnHeaderLines |-> ColumnLines(h)]

InitColumns ==
    /\ \E h \in ColumnHeaderLines : fileContent = [headers |-> h, lines |-> <<>>]
    /\ parseResult = NoResult
    /\ IdleMap /\ IdleResp /\ IdleCat /\ IdleHash /\ IdlePost /\ IdleCell /\ IdleRule

WriteColumnLine ==
    /\ parseResult = NoResult
    /\ Len(fileContent.lines) < MaxLines
    /\ \E l \in ColumnLinesOf[fileContent.headers] :
          fileContent' = [fileContent EXCEPT !.lines = Append(@, l)]
    /\ UNCHANGED <<parseResult, mapVars, respVars, catVars, hashVars, postVars, cellVars, ruleVars>>

NextColumns == WriteColumnLine \/ ParseCSV

SpecColumns == InitColumns /\ [][NextColumns]_vars

(***************************************************************************)
(* Specification of the column mapper: a header line of up to MaxHeaders   *)
(* distinct names, as transformHeader leaves them, is written and mapped.  *)
(***************************************************************************)
MaxHeaders == 4

HeaderNames == {
    <<"d","a","t","e">>,
    <<"d","e","s","c","r","i","p","t","i","o","n">>,
    <<"m","e","r","c","h","a","n","t">>,
    <<"a","m","o","u","n","t">>,
    <<"p","a","y","e","e">> }

InitMap ==
    /\ mapHeaders = <<>>
    /\ mapResult = NoResult
    /\ IdleParse /\ IdleResp /\ IdleCat /\ IdleHash /\ IdlePost /\ IdleCell /\ IdleRule

WriteHeader ==
    /\ mapResult = NoResult
    /\ Len(mapHeaders) < MaxHeaders
    /\ \E h \in HeaderNames :
          /\ \A j \in 1..Len(mapHeaders) : mapHeaders[j] # h
          /\ mapHeaders' = Append(mapHeaders, h)
    /\ UNCHANGED <<mapResult, parseVars, respVars, catVars, hashVars, postVars, cellVars, ruleVars>>

DetectColumnMappings ==
    /\ mapResult = NoResult
    /\ mapResult' = detectColumnMappings(mapHeaders)
    /\ UNCHANGED <<mapHeaders, parseVars, respVars, catVars, hashVars, postVars, cellVars, ruleVars>>

NextMap == WriteHeader \/ DetectColumnMappings

SpecMap == InitMap /\ [][NextMap]_vars

(***************************************************************************)
(* Specification of the response parser: a response text of up to          *)
(* MaxTextLen tokens arrives for some member list and is parsed.           *)
(***************************************************************************)
MaxTextLen == 4

MemberLists ==
    [ category    : {Undefined, JStr(GROCERIES), JStr(PETS)},
      subcategory : {Null, JStr(GAS)},
      confidence  : {Undefined, Num(0 - 5, 1), Num(0, 0), Num(95, 2), Num(1, 0),
                     Num(15, 1), JStr(HIGH)},
      explanation : {Undefined, JStr(TEST)} ]

InitResp ==
    /\ \E members \in MemberLists : response = [text |-> <<>>, members |-> members]
    /\ categorization = NoResult
    /\ IdleParse /\ IdleMap /\ IdleCat /\ IdleHash /\ IdlePost /\ IdleCell /\ IdleRule

WriteToken ==
    /\ categorization = NoResult
    /\ Len(response.text) < MaxTextLen
    /\ \E token \in Tokens : response' = [response EXCEPT !.text = Append(@, token)]
    /\ UNCHANGED <<categorization, parseVars, mapVars, catVars, hashVars, postVars, cellVars, ruleVars>>

ParseCategorizationResponse ==
    /\ categorization = NoResult
    /\ categorization' = parseCategorizationResponse(response.text, response.members)
    /\ UNCHANGED <<response, parseVars, mapVars, catVars, hashVars, postVars, cellVars, ruleVars>>

NextResp == WriteToken \/ ParseCategorizationResponse

SpecResp == InitResp /\ [][NextResp]_vars

(***************************************************************************)
(* Specification of the categorizer: up to MaxCalls calls of               *)
(* categorizeTransaction run concurrently, each suspended at its await     *)
(* until its fetch settles.                                                *)
(***************************************************************************)
MaxCalls == 2

ANTHROPIC_URL == "https://api.anthropic.com/v1/messages"

OPENAI_URL == "https://api.openai.com/v1/chat/completions"

\* the (merchant, description, amount) the calls are made with
CallArguments == {
    [merchant |-> WHOLE_FOODS, description |-> GROCERY, amount |-> Num(0 - 50, 0)],
    [merchant |-> ACME_CORP,   description |-> PAYROLL, amount |-> Num(2500, 0)],
    [merchant |-> TEST,        description |-> TEST,    amount |-> Num(0, 0)] }

\* the texts a provider answers with
ResponseTexts == {
    [text |-> <<"x", "x">>, members |-> NoMembers],
    [text |-> <<"{", "x", "}">>, members |-> NoMembers],
    [text |-> <<"x", "{", "M", "}", "x">>,
     members |-> [category |-> JStr(DINING), subcategory |-> Null,
                  confidence |-> Num(95, 2), explanation |-> JStr(TEST)]],
    [text |-> <<"{", "}">>, members |-> NoMembers],
    [text |-> <<"{", "M", "}">>,
     members |-> [category |-> JStr(PETS), subcategory |-> Null,
                  confidence |-> Num(95, 2), explanation |-> JStr(TEST)]],
    [text |-> <<"{", "M", "}">>,
     members |-> [category |-> JStr(DINING), subcategory |-> JStr(GAS),
                  confidence |-> Num(95, 2), explanation |-> JStr(TEST)]] }

IdleCall ==
    [pc |-> "idle", args |-> <<>>, fetched |-> <<>>, settled |-> "", text |-> NoResponse,
     result |-> NoResult]

InitCat ==
    /\ env \in SUBSET {"ANTHROPIC_API_KEY", "OPENAI_API_KEY"}
    /\ calls = [c \in 1..MaxCalls |-> IdleCall]
    /\ IdleParse /\ IdleMap /\ IdleResp /\ IdleHash /\ IdlePost /\ IdleCell /\ IdleRule

Endpoint_OpenAIFirst(keys) ==
    IF "OPENAI_API_KEY" \in keys THEN OPENAI_URL ELSE ANTHROPIC_URL

\* the provider the request goes to: Claude if its key is set, otherwise
\* OpenAI
Endpoint(keys) ==
    IF "ANTHROPIC_API_KEY" \in keys THEN ANTHROPIC_URL ELSE OPENAI_URL

\* categorizeTransaction up to its await: without a credential it returns
\* the rule-based result, otherwise it sends one request and waits
CategorizeTransaction(c) ==
    /\ calls[c].pc = "idle"
    /\ \E a \in CallArguments :
          calls' = [calls EXCEPT ![c] =
              IF env = {}
              THEN [@ EXCEPT !.pc = "done", !.args = a,
                             !.result = ruleBasedCategorization(a.merchant, a.description, a.amount)]
              ELSE [@ EXCEPT !.pc = "awaiting", !.args = a,
                             !.fetched = <<Endpoint(env)>>]]
    /\ UNCHANGED <<env, parseVars, mapVars, respVars, hashVars, postVars, cellVars, ruleVars>>

CatchAndFallBack_Rethrows(c, how) ==
    calls' = [calls EXCEPT ![c] =
        [@ EXCEPT !.pc = "done", !.settled = how, !.result = [rejected |-> how]]]

\* the catch block of categorizeTransaction
CatchAndFallBack(c, how) ==
    calls' = [calls EXCEPT ![c] =
        [@ EXCEPT !.pc = "done", !.settled = how,
                  !.result = ruleBasedCategorization(calls[c].args.merchant,
                                                     calls[c].args.description,
                                                     calls[c].args.amount)]]

\* fetch rejects (a network error)
FetchRejects(c) ==
    /\ calls[c].pc = "awaiting"
    /\ CatchAndFallBack(c, "rejected")
    /\ UNCHANGED <<env, parseVars, mapVars, respVars, hashVars, postVars, cellVars, ruleVars>>

\* the body is no JSON, or has no content[0] (choices[0].message): reading
\* it throws
BodyWithoutText(c) ==
    /\ calls[c].pc = "awaiting"
    /\ CatchAndFallBack(c, "no text")
    /\ UNCHANGED <<env, parseVars, mapVars, respVars, hashVars, postVars, cellVars, ruleVars>>

\* the body holds a text: the call returns what parseCategorizationResponse
\* makes of it
BodyWithText(c) ==
    /\ calls[c].pc = "awaiting"
    /\ \E r \in ResponseTexts :
          calls' = [calls EXCEPT ![c] =
              [@ EXCEPT !.pc = "done", !.settled = "text", !.text = r,
                        !.result = parseCategorizationResponse(r.text, r.members)]]
    /\ UNCHANGED <<env, parseVars, mapVars, respVars, hashVars, postVars, cellVars, ruleVars>>

\* content[0] (choices[0].message) is there but holds no text: text.match
\* throws inside the try of parseCategorizationResponse, whose catch returns
BodyWithUndefinedText(c) ==
    /\ calls[c].pc = "awaiting"
    /\ calls' = [calls EXCEPT ![c] =
          [@ EXCEPT !.pc = "done", !.settled = "undefined text", !.result = FailedToParse]]
    /\ UNCHANGED <<env, parseVars, mapVars, respVars, hashVars, postVars, cellVars, ruleVars>>

NextCat ==
    \E c \in 1..MaxCalls :
        \/ CategorizeTransaction(c)
        \/ FetchRejects(c)
        \/ BodyWithoutText(c)
        \/ BodyWithText(c)
        \/ BodyWithUndefinedText(c)

SpecCat == InitCat /\ [][NextCat]_vars

(***************************************************************************)
(* Specification of the date cells: parseDate is applied to a cell put     *)
(* together from up to MaxPieces digit groups and separators, in a process *)
(* of some time zone.                                                      *)
(***************************************************************************)
MaxPieces == 5

RECURSIVE Join(_)
\* the text of a cell kept as the pieces it is put together from
Join(pieces) == IF pieces = <<>> THEN <<>> ELSE Head(pieces) \o Join(Tail(pieces))

DatePieces == {<<"2","0","2","4">>, <<"0","1">>, <<"1","5">>, <<"5">>, <<"/">>, <<"-">>}

\* hours east of UTC: New York in winter, UTC, Tokyo
ZoneOffsets == {0 - 5, 0, 9}

InitDate ==
    /\ cellText = <<>>
    /\ cellValue = NoResult
    /\ timeZone \in ZoneOffsets
    /\ IdleParse /\ IdleMap /\ IdleResp /\ IdleCat /\ IdleHash /\ IdlePost /\ IdleRule

WriteDatePiece ==
    /\ cellValue = NoResult
    /\ Len(cellText) < MaxPieces
    /\ \E p \in DatePieces : cellText' = Append(cellText, p)
    /\ UNCHANGED <<cellValue, timeZone, parseVars, mapVars, respVars, catVars, hashVars, postVars,
                   ruleVars>>

ParseDate ==
    /\ cellValue = NoResult
    /\ cellValue' = parseDate(Join(cellText))
    /\ UNCHANGED <<cellText, timeZone, parseVars, mapVars, respVars, catVars, hashVars, postVars,
                   ruleVars>>

NextDate == WriteDatePiece \/ ParseDate

SpecDate == InitDate /\ [][NextDate]_vars

(***************************************************************************)
(* Specification of the amount cells: parseAmount is applied to a cell put *)
(* together from up to MaxAmountPieces signs, symbols and digit groups.    *)
(***************************************************************************)
MaxAmountPieces == 4

DigitPieces == {<<"1">>, <<"2">>}

FRACTION_50 == <<".","5","0">>

AmountPieces ==
    {<<"-">>, <<"$">>, <<",">>, <<" ">>, <<"(">>, <<")">>, FRACTION_50} \cup DigitPieces

InitAmount ==
    /\ IdleCell
    /\ IdleParse /\ IdleMap /\ IdleResp /\ IdleCat /\ IdleHash /\ IdlePost /\ IdleRule

WriteAmountPiece ==
    /\ cellValue = NoResult
    /\ Len(cellText) < MaxAmountPieces
    /\ \E p \in AmountPieces : cellText' = Append(cellText, p)
    /\ UNCHANGED <<cellValue, timeZone, parseVars, mapVars, respVars, catVars, hashVars, postVars,
                   ruleVars>>

ParseAmount ==
    /\ cellValue = NoResult
    /\ cellValue' = parseAmount(Join(cellText))
    /\ UNCHANGED <<cellText, timeZone, parseVars, mapVars, respVars, catVars, hashVars, postVars,
                   ruleVars>>

NextAmount == WriteAmountPiece \/ ParseAmount

SpecAmount == InitAmount /\ [][NextAmount]_vars

(***************************************************************************)
(* Specification of the rule-based fallback: ruleBasedCategorization is    *)
(* applied to a merchant, a description and an amount.                     *)
(***************************************************************************)
FOOD_MARKET == <<"F","O","O","D"," ","M","A","R","K","E","T">>

SHELL_CAFE == <<"S","h","e","l","l"," ","C","a","f","e">>

NETFLIX_GAS == <<"N","e","t","f","l","i","x"," ","G","a","s">>

HULU == <<"H","U","L","U">>

WHOLE == <<"w","h","o","l","e">>

FOODS == <<"F","o","o","d","s">>

RuleTexts == {WHOLE_FOODS, FOOD_MARKET, SHELL_CAFE, NETFLIX_GAS, HULU, WHOLE, FOODS,
              ACME_CORP}

RuleAmounts == {Num(0 - 50, 0), Num(1, 2), Num(2500, 0), NaN}

InitRules ==
    /\ IdleRule
    /\ IdleParse /\ IdleMap /\ IdleResp /\ IdleCat /\ IdleHash /\ IdlePost /\ IdleCell

SetMerchant ==
    /\ ruleResult = NoResult
    /\ ruleArgs.merchant = <<>>
    /\ \E w \in RuleTexts : ruleArgs' = [ruleArgs EXCEPT !.merchant = w]
    /\ UNCHANGED <<ruleResult, parseVars, mapVars, respVars, catVars, hashVars, postVars, cellVars>>

SetDescription ==
    /\ ruleResult = NoResult
    /\ ruleArgs.description = <<>>
    /\ \E w \in RuleTexts : ruleArgs' = [ruleArgs EXCEPT !.description = w]
    /\ UNCHANGED <<ruleResult, parseVars, mapVars, respVars, catVars, hashVars, postVars, cellVars>>

SetAmount ==
    /\ ruleResult = NoResult
    /\ ruleArgs.amount = Num(0, 0)
    /\ \E a \in RuleAmounts : ruleArgs' = [ruleArgs EXCEPT !.amount = a]
    /\ UNCHANGED <<ruleResult, parseVars, mapVars, respVars, catVars, hashVars, postVars, cellVars>>

RuleBasedCategorization ==
    /\ ruleResult = NoResult
    /\ ruleResult' = ruleBasedCategorization(ruleArgs.merchant, ruleArgs.description,
                                             ruleArgs.amount)
    /\ UNCHANGED <<ruleArgs, parseVars, mapVars, respVars, catVars, hashVars, postVars, cellVars>>

NextRules ==
    \/ SetMerchant
    \/ SetDescription
    \/ SetAmount
    \/ RuleBasedCategorization

SpecRules == InitRules /\ [][NextRules]_vars

(***************************************************************************)
(* The dedup key of the transactions route.                                *)
(***************************************************************************)
RECURSIVE NatToString(_)
NatToString(n) ==
    IF n < 10 THEN <<Digits[n + 1]>>
    ELSE NatToString(n \div 10) \o <<Digits[(n % 10) + 1]>>

RECURSIVE PadStart(_, _)
\* s.padStart(n, "0")
PadStart(s, n) == IF Len(s) >= n THEN s ELSE PadStart(<<"0">> \o s, n)

\* Number.prototype.toString of a decimal number
NumberToString(n) ==
    LET abs == IF n.m < 0 THEN 0 - n.m ELSE n.m
        sign == IF n.m < 0 THEN <<"-">> ELSE <<>>
    IN  IF n.e = 0 THEN sign \o NatToString(abs)
        ELSE sign \o NatToString(abs \div Pow10(n.e)) \o <<".">>
                  \o PadStart(NatToString(abs % Pow10(n.e)), n.e)

\* the string a template literal puts in for ${v}
TemplateString(v) ==
    CASE v.t = "string"    -> v.v
      [] v.t = "number"    -> NumberToString(v)
      [] v.t = "NaN"       -> NAN_TEXT
      [] v.t = "null"      -> NULL_TEXT
      [] OTHER             -> UNDEFINED_TEXT

\* `${date}-${amount}-${merchant}-${description}`
PreImage(date, amount, merchant, description) ==
    TemplateString(date) \o <<"-">> \o TemplateString(amount) \o <<"-">> \o TemplateString(merchant)
        \o <<"-">> \o TemplateString(description)

\* the lowercase hexadecimal SHA-256 digest of data: a function of data
\* alone, taken to be free of collisions
Sha256Hex(data) == [sha256 |-> data]

generateHash(date, amount, merchant, description) ==
    Sha256Hex(PreImage(date, amount, merchant, description))

TwoDigits(n) == PadStart(NatToString(n), 2)

ISO_TIME_TAIL == <<":","0","0",":","0","0",".","0","0","0","Z">>

\* Date.prototype.toISOString of a valid date, from its fields in UTC
ISOString(f) ==
    PadStart(NatToString(f.y), 4) \o <<"-">> \o TwoDigits(f.m) \o <<"-">> \o TwoDigits(f.d)
        \o <<"T">> \o TwoDigits(f.h) \o ISO_TIME_TAIL

RangeError == [threw |-> "RangeError"]

\* generateTransactionHash of the utilities, given a Date in a process offset
\* hours east of UTC; toISOString throws on an Invalid Date
generateTransactionHash(date, amount, merchant, description, offset) ==
    IF date = InvalidDate THEN RangeError
    ELSE Sha256Hex(ISOString(UTCFields(date, offset)) \o <<"-">> \o TemplateString(amount)
                     \o <<"-">> \o TemplateString(merchant)
                     \o <<"-">> \o TemplateString(description))

(***************************************************************************)
(* Specification of the dedup key: up to MaxTuples tuples are hashed, by   *)
(* the route and by the utility.                                           *)
(***************************************************************************)
MaxTuples == 2

SLASH_DATE_15 == <<"0","1","/","1","5","/","2","0","2","4">>

DASH_DATE_15 == <<"0","1","-","1","5","-","2","0","2","4">>

HashTuples ==
    [ date        : {JStr(DATE_15), JStr(SLASH_DATE_15), JStr(DATE_16)},
      amount      : {Num(0 - 50, 0), Num(255, 1)},
      merchant    : {JStr(<<"A">>), JStr(<<"A", "-", "B">>)},
      description : {Undefined, JStr(<<"C">>), JStr(<<"B", "-", "C">>)} ]

InitHash ==
    /\ hashArgs = <<>>
    /\ hashKeys = NoResult
    /\ IdleParse /\ IdleMap /\ IdleResp /\ IdleCat /\ IdlePost /\ IdleCell /\ IdleRule

WriteTuple ==
    /\ hashKeys = NoResult
    /\ Len(hashArgs) < MaxTuples
    /\ \E t \in HashTuples : hashArgs' = Append(hashArgs, t)
    /\ UNCHANGED <<hashKeys, parseVars, mapVars, respVars, catVars, postVars, cellVars, ruleVars>>

GenerateHash ==
    /\ hashKeys = NoResult
    /\ hashKeys' = [keys |-> [i \in 1..Len(hashArgs) |->
                      generateHash(hashArgs[i].date, hashArgs[i].amount,
                                   hashArgs[i].merchant, hashArgs[i].description)]]
    /\ UNCHANGED <<hashArgs, parseVars, mapVars, respVars, catVars, postVars, cellVars, ruleVars>>

\* the utility is given the Date of each tuple, the route having made its key
GenerateTransactionHash ==
    /\ hashKeys # NoResult
    /\ "utility" \notin DOMAIN hashKeys
    /\ hashKeys' = [keys |-> hashKeys.keys,
                    utility |-> [i \in 1..Len(hashArgs) |->
                      generateTransactionHash(NewDate(hashArgs[i].date.v), hashArgs[i].amount,
                                              hashArgs[i].merchant, hashArgs[i].description,
                                              timeZone)]]
    /\ UNCHANGED <<hashArgs, parseVars, mapVars, respVars, catVars, postVars, cellVars, ruleVars>>

NextHash == WriteTuple \/ GenerateHash \/ GenerateTransactionHash

SpecHash == InitHash /\ [][NextHash]_vars

(***************************************************************************)
(* Specification of POST /api/transactions: up to MaxRequests requests     *)
(* run concurrently; a request is suspended at each await of the store.    *)
(***************************************************************************)
MaxRequests == 2

\* what auth() resolves userId to: null when signed out
SessionUserIds == {Null, JStr(CLERK_1), JStr(CLERK_2), JStr(CLERK_3)}

\* the id the store gives the user record of a Clerk user
UserIdOf(clerkId) ==
    IF clerkId = JStr(CLERK_1) THEN "user_1"
    ELSE IF clerkId = JStr(CLERK_2) THEN "user_2"
    ELSE "user_3"

StoredUsers == {[id |-> UserIdOf(JStr(CLERK_1)), clerkId |-> JStr(CLERK_1)],
                [id |-> UserIdOf(JStr(CLERK_2)), clerkId |-> JStr(CLERK_2)]}

\* the bodies posted (categoryId is passed through and left out)
PostBodies == {
    [date |-> JStr(DATE_15), amount |-> Num(0 - 50, 0),
     merchant |-> JStr(<<"A", "-", "B">>), description |-> JStr(<<"C">>)],
    [date |-> JStr(DATE_15), amount |-> Num(0 - 50, 0),
     merchant |-> JStr(<<"A">>), description |-> JStr(<<"B", "-", "C">>)],
    [date |-> JStr(DATE_15), amount |-> Num(0, 0),
     merchant |-> JStr(<<"A">>), description |-> Undefined],
    [date |-> JStr(DATE_15), amount |-> Num(255, 1),
     merchant |-> JStr(<<"A">>), description |-> Undefined],
    [date |-> JStr(DATE_15), amount |-> Num(255, 1),
     merchant |-> JStr(<<"A">>), description |-> JStr(<<"A">>)],
    [date |-> JStr(DATE_15), amount |-> Num(255, 1),
     merchant |-> Undefined, description |-> JStr(<<"A">>)] }

NoBody == [date |-> Undefined, amount |-> Undefined, merchant |-> Undefined,
           description |-> Undefined]

NoHash == [sha256 |-> <<>>]

IdleRequest ==
    [pc |-> "idle", method |-> "", userId |-> Null, body |-> NoBody, user |-> "",
     hash |-> NoHash, listed |-> <<>>, status |-> 0]

InitPost ==
    /\ dbUsers = StoredUsers
    /\ dbTransactions = <<>>
    /\ requests = [r \in 1..MaxRequests |-> IdleRequest]
    /\ IdleParse /\ IdleMap /\ IdleResp /\ IdleCat /\ IdleHash /\ IdleCell /\ IdleRule

Respond(r, code) == requests' = [requests EXCEPT ![r].pc = "done", ![r].status = code]

\* Post with the body validated before the session is looked at
Post_ValidatesFirst(r) ==
    /\ requests[r].pc = "idle"
    /\ \E userId \in SessionUserIds, body \in PostBodies :
          requests' = [requests EXCEPT ![r] =
              IF ~Truthy(body.date) \/ ~Truthy(body.amount) \/ ~Truthy(body.merchant)
              THEN [@ EXCEPT !.pc = "done", !.method = "POST", !.userId = userId,
                             !.body = body, !.status = 400]
              ELSE IF ~Truthy(userId)
              THEN [@ EXCEPT !.pc = "done", !.method = "POST", !.userId = userId,
                             !.status = 401]
              ELSE [@ EXCEPT !.pc = "findUser", !.method = "POST", !.userId = userId,
                             !.body = body]]
    /\ UNCHANGED <<dbUsers, dbTransactions, parseVars, mapVars, respVars, catVars, hashVars, cellVars, ruleVars>>

\* auth(), request.json() and the validation of the body
Post(r) ==
    /\ requests[r].pc = "idle"
    /\ \E userId \in SessionUserIds, body \in PostBodies :
          requests' = [requests EXCEPT ![r] =
              IF ~Truthy(userId)
              THEN [@ EXCEPT !.pc = "done", !.method = "POST", !.userId = userId,
                             !.status = 401]
              ELSE IF ~Truthy(body.date) \/ ~Truthy(body.amount) \/ ~Truthy(body.merchant)
              THEN [@ EXCEPT !.pc = "done", !.method = "POST", !.userId = userId,
                             !.body = body, !.status = 400]
              ELSE [@ EXCEPT !.pc = "findUser", !.method = "POST", !.userId = userId,
                             !.body = body]]
    /\ UNCHANGED <<dbUsers, dbTransactions, parseVars, mapVars, respVars, catVars, hashVars, cellVars, ruleVars>>

\* prisma.user.findUnique({ where: { clerkId: userId } }), then generateHash
FindUser(r) ==
    /\ requests[r].pc = "findUser"
    /\ LET found == {u \in dbUsers : u.clerkId = requests[r].userId}
           body  == requests[r].body
       IN  IF found = {}
           THEN Respond(r, 404)
           ELSE requests' = [requests EXCEPT
                    ![r].pc = "findExisting",
                    ![r].user = (CHOOSE u \in found : TRUE).id,
                    ![r].hash = generateHash(body.date, body.amount, body.merchant,
                                             body.description)]
    /\ UNCHANGED <<dbUsers, dbTransactions, parseVars, mapVars, respVars, catVars, hashVars, cellVars, ruleVars>>

Existing(hash) == {i \in DOMAIN dbTransactions : dbTransactions[i].hash = hash}

\* prisma.transaction.findUnique({ where: { hash } })
FindExisting(r) ==
    /\ requests[r].pc = "findExisting"
    /\ IF Existing(requests[r].hash) # {}
       THEN Respond(r, 409)
       ELSE requests' = [requests EXCEPT ![r].pc = "create"]
    /\ UNCHANGED <<dbUsers, dbTransactions, parseVars, mapVars, respVars, catVars, hashVars, cellVars, ruleVars>>

\* the store rejects a row whose hash is stored already: create throws
UniqueConstraintFails(hash) == Existing(hash) # {}

\* prisma.transaction.create({ data }): 201, or 500 from the catch block
\* when create throws
Create(r) ==
    /\ requests[r].pc = "create"
    /\ LET body == requests[r].body
       IN  IF UniqueConstraintFails(requests[r].hash)
           THEN Respond(r, 500) /\ UNCHANGED dbTransactions
           ELSE /\ dbTransactions' = Append(dbTransactions,
                      [userId |-> requests[r].user, date |-> body.date,
                       amount |-> body.amount, merchantRaw |-> body.merchant,
                       merchantNormalized |-> body.merchant,
                       description |-> Or(body.description, body.merchant),
                       hash |-> requests[r].hash])
                /\ Respond(r, 201)
    /\ UNCHANGED <<dbUsers, parseVars, mapVars, respVars, catVars, hashVars, cellVars, ruleVars>>

\* GET: auth()
Get(r) ==
    /\ requests[r].pc = "idle"
    /\ \E userId \in SessionUserIds :
          requests' = [requests EXCEPT ![r] =
              IF ~Truthy(userId)
              THEN [@ EXCEPT !.pc = "done", !.method = "GET", !.userId = userId,
                             !.status = 401]
              ELSE [@ EXCEPT !.pc = "getUser", !.method = "GET", !.userId = userId]]
    /\ UNCHANGED <<dbUsers, dbTransactions, parseVars, mapVars, respVars, catVars, hashVars, cellVars, ruleVars>>

\* transaction.findMany({ where: { userId } }), without its order and limit
FindMany(userId) == SelectSeq(dbTransactions, LAMBDA t : t.userId = userId)

\* GET: the user record is found or created, and the user's transactions
\* are fetched and returned
GetTransactions(r) ==
    /\ requests[r].pc = "getUser"
    /\ dbUsers' = dbUsers \cup {[id |-> UserIdOf(requests[r].userId),
                                  clerkId |-> requests[r].userId]}
    /\ requests' = [requests EXCEPT ![r].pc = "done",
                                    ![r].user = UserIdOf(requests[r].userId),
                                    ![r].listed = FindMany(UserIdOf(requests[r].userId)),
                                    ![r].status = 200]
    /\ UNCHANGED <<dbTransactions, parseVars, mapVars, respVars, catVars, hashVars, cellVars, ruleVars>>

NextPost ==
    \E r \in 1..MaxRequests :
        \/ Post(r)
        \/ FindUser(r)
        \/ FindExisting(r)
        \/ Create(r)
        \/ Get(r)
        \/ GetTransactions(r)

SpecPost == InitPost /\ [][NextPost]_vars

(***************************************************************************)
(* What the claims about parseCSV speak of, computed from the file alone.  *)
(***************************************************************************)
Parsed == parseResult # NoResult

\* the columns (indexes into the header line) mapped to the fields, 0 if none
ColumnsOfHeaders ==
    [h \in HeaderLines |->
        LET fields == PapaFields([headers |-> h, lines |-> <<>>])
        IN  [ date        |-> FindHeader(fields, "date"),
              merchant    |-> FindHeader(fields, "merchant"),
              description |-> FindHeader(fields, "description"),
              amount      |-> FindHeader(fields, "amount") ]]

ColumnsOf(file) == ColumnsOfHeaders[file.headers]

RequiredMapped(cols) == cols["date"] # 0 /\ cols["amount"] # 0

\* the text of a line in column j
LineCell(line, j) == IF j \in 1..Len(line) THEN line[j] ELSE <<>>

HasRequiredCells(cols, line) ==
    LineCell(line, cols["date"]) # <<>> /\ LineCell(line, cols["amount"]) # <<>>

\* the lines (by index) that hold a data row
DataLines(file) == {i \in 1..Len(file.lines) : file.lines[i] # EmptyLine}

\* the data rows whose number of cells is not the number of headers
RaggedLines(file) ==
    {i \in DataLines(file) : Len(file.lines[i]) # Len(file.headers)}

ErrorsFrom(result, from) == SelectSeq(result.errors, LAMBDA e : e.from = from)

AmountResidue(cell) ==
    LET cleaned == StripNoise(cell)
    IN  IF Len(cleaned) >= 2 /\ cleaned[1] = "(" /\ cleaned[Len(cleaned)] = ")"
        THEN SubSeq(cleaned, 2, Len(cleaned) - 1)
        ELSE cleaned

\* the data rows (by line index) with a date that parses and an amount cell
\* that is not empty and not entirely a decimal number
NonNumericAmountLines(file, cols) ==
    {i \in DataLines(file) :
        /\ LineCell(file.lines[i], cols["date"]) # <<>>
        /\ parseDate(LineCell(file.lines[i], cols["date"])) # InvalidDate
        /\ LineCell(file.lines[i], cols["amount"]) # <<>>
        /\ ~IsDecimalNumber(AmountResidue(LineCell(file.lines[i], cols["amount"])))}

\* C6 as stated: a row whose amount cell leaves a non-numeric residue gives
\* an 'Invalid amount' error and no transaction.
C6_NonNumericAmountIsInvalid ==
    Parsed =>
        LET cols   == ColumnsOf(fileContent)
            fields == PapaFields(fileContent)
        IN  RequiredMapped(cols) =>
              /\ Len(SelectSeq(parseResult.errors,
                               LAMBDA e : e.from = "row" /\ e.message = "Invalid amount"))
                   = Cardinality(NonNumericAmountLines(fileContent, cols))
              /\ \A k \in 1..Len(parseResult.transactions) :
                    IsDecimalNumber(AmountResidue(
                        parseResult.transactions[k].rawData[fields[cols["amount"]]]))

\* the source line numbers (the header is line 1) of the data rows that have
\* both required cells and a date or an amount that does not parse
OffendingLineNumbers(file, cols) ==
    SelectSeq([i \in 1..Len(file.lines) |-> i + 1],
              LAMBDA n :
                 LET line == file.lines[n - 1]
                 IN  /\ line # EmptyLine
                     /\ HasRequiredCells(cols, line)
                     /\ \/ parseDate(LineCell(line, cols["date"])) = InvalidDate
                        \/ isNaN(parseAmount(LineCell(line, cols["amount"]))))

\* C10 as stated: the row-level errors name, in order, the source line
\* numbers of the offending rows, blank lines before them included.
C10_RowErrorNamesSourceLine ==
    Parsed =>
        LET cols      == ColumnsOf(fileContent)
            rowErrors == ErrorsFrom(parseResult, "row")
        IN  RequiredMapped(cols) =>
              [k \in 1..Len(rowErrors) |-> rowErrors[k].row]
                = OffendingLineNumbers(fileContent, cols)

(***************************************************************************)
(* What the claims about detectColumnMappings speak of.                    *)
(***************************************************************************)
\* the variants (by index in the field's list) some header contains
VariantsPresent(headers, field) ==
    {k \in 1..Len(COLUMN_MAPPINGS[field]) :
        \E j \in 1..Len(headers) :
            Includes(ToLowerCase(headers[j]), COLUMN_MAPPINGS[field][k])}

\* the first header, in file order, that contains the earliest variant present
VariantFirstChoice(headers, field) ==
    LET k0 == Min(VariantsPresent(headers, field))
    IN  headers[Min({j \in 1..Len(headers) :
                       Includes(ToLowerCase(headers[j]), COLUMN_MAPPINGS[field][k0])})]

\* C9 as stated: a field maps to the header that contains the earliest
\* variant of its list, and among those to the first in file order.
C9_VariantOrderBeforeHeaderOrder ==
    (mapResult # NoResult) =>
        \A field \in DOMAIN COLUMN_MAPPINGS :
            /\ field \in DOMAIN mapResult <=> VariantsPresent(mapHeaders, field) # {}
            /\ field \in DOMAIN mapResult =>
                  mapResult[field] = VariantFirstChoice(mapHeaders, field)

(***************************************************************************)
(* What the claims about the categorizer speak of.                         *)
(***************************************************************************)
RuleBasedFor(call) ==
    ruleBasedCategorization(call.args.merchant, call.args.description, call.args.amount)

\* C2 as stated: with a credential set, a response text without a JSON
\* object, or one that does not parse, gives the rule-based result.
C2_UnparsableTextFallsBackToRules ==
    \A c \in DOMAIN calls :
        ( /\ calls[c].pc = "done"
          /\ env # {}
          /\ calls[c].settled = "text"
          /\ \/ JsonMatch(calls[c].text.text) = NoMatch
             \/ ~JsonParses(JsonMatch(calls[c].text.text)) )
        => calls[c].result = RuleBasedFor(calls[c])

\* whether the span holds the object of the response and nothing else
ParsedObject == categorization # NoResult /\ JsonParses(JsonMatch(response.text))

\* the confidence the response's object is stated to give: the number clamped
\* into [0,1], and 0.5 for a missing value or one that is no number
ClampedConfidence(v) ==
    IF v.t # "number" THEN Num(5, 1)
    ELSE IF Less(v, Num(0, 0)) THEN Num(0, 0)
    ELSE IF Less(Num(1, 0), v) THEN Num(1, 0)
    ELSE v

\* C7 as stated: the confidence of a parsed response is the response's
\* confidence clamped into [0,1], 0.5 when it is missing or not a number.
C7_ConfidenceIsClamped ==
    ParsedObject =>
        categorization.confidence
          = ClampedConfidence(JsonParse(JsonMatch(response.text), response.members).confidence)

\* whether text is prose without braces, the object, and then anything but
\* a second member list
WrappedObject(text) ==
    \E i \in 1..(Len(text) - 2) :
        /\ SubSeq(text, i, i + 2) = <<"{", "M", "}">>
        /\ \A j \in 1..(i - 1) : text[j] = "x"
        /\ \A j \in (i + 3)..Len(text) : text[j] # "M"

\* C8 as stated: an object wrapped in prose or fencing, braces in the trailing
\* text included, gives the result the object alone gives.
C8_FirstObjectIsExtracted ==
    (categorization # NoResult /\ WrappedObject(response.text)) =>
        categorization = parseCategorizationResponse(<<"{", "M", "}">>, response.members)

(***************************************************************************)
(* What the claims about the transactions route speak of.                  *)
(***************************************************************************)
\* C3 as stated: two tuples that differ in a field never get the same key.
C3_DistinctTuplesDistinctKeys ==
    hashKeys # NoResult =>
        \A i, j \in DOMAIN hashArgs :
            hashArgs[i] # hashArgs[j] => hashKeys.keys[i] # hashKeys.keys[j]

\* the requests that got as far as the store with their key
Keyed == {r \in DOMAIN requests : requests[r].pc = "done" /\ requests[r].hash # NoHash}

\* C4 as stated: no two stored transactions share a key, and of the POSTs of
\* one key one is answered 201 and every other one 409, never 500.
C4_DuplicatePostAlways409 ==
    /\ \A i, j \in DOMAIN dbTransactions :
           dbTransactions[i].hash = dbTransactions[j].hash => i = j
    /\ \A r \in Keyed : requests[r].status \in {201, 409}
    /\ \A r, q \in Keyed :
           (r # q /\ requests[r].hash = requests[q].hash)
               => ~(requests[r].status = 201 /\ requests[q].status = 201)

(***************************************************************************)
(* More of what the claims about parseCSV speak of.                        *)
(***************************************************************************)
\* the file without its line i
RemoveLine(file, i) ==
    [file EXCEPT !.lines = SubSeq(@, 1, i - 1) \o SubSeq(@, i + 1, Len(@))]

\* the data rows (by line index) with a date cell that is not empty and is
\* no date, or an amount cell that is not empty and is no decimal number
UnparseableLines(file, cols) ==
    {i \in DataLines(file) :
        \/ /\ LineCell(file.lines[i], cols["date"]) # <<>>
           /\ parseDate(LineCell(file.lines[i], cols["date"])) = InvalidDate
        \/ /\ LineCell(file.lines[i], cols["amount"]) # <<>>
           /\ ~IsDecimalNumber(AmountResidue(LineCell(file.lines[i], cols["amount"])))}

\* C11 as stated: a row with an unparseable date or amount adds one error and
\* no transaction, every other row giving what it gives without the bad row.
C11_BadRowAddsOneErrorOnly ==
    Parsed =>
        LET cols == ColumnsOf(fileContent)
        IN  RequiredMapped(cols) =>
              \A i \in UnparseableLines(fileContent, cols) :
                  LET without == parseCSV(RemoveLine(fileContent, i))
                  IN  /\ parseResult.transactions = without.transactions
                      /\ Len(parseResult.errors) = Len(without.errors) + 1

\* the amount is a number: neither NaN nor an infinity
IsFinite(n) == n.t = "number"

\* C12 as stated: every transaction has a valid date and a finite amount,
\* and the transactions are those of distinct data rows, in file order.
C12_TransactionsAreParsedRows ==
    Parsed =>
        /\ \A k \in 1..Len(parseResult.transactions) :
              /\ parseResult.transactions[k].date # InvalidDate
              /\ IsFinite(parseResult.transactions[k].amount)
        /\ \E pick \in [1..Len(parseResult.transactions) -> 1..Len(PapaData(fileContent))] :
              /\ \A k \in DOMAIN pick :
                    parseResult.transactions[k].rawData = PapaData(fileContent)[pick[k]]
              /\ \A k, l \in DOMAIN pick : k < l => pick[k] < pick[l]

\* C13: success tells exactly that errors is empty, on the normal return, on
\* the return for missing required columns and on the return of the catch.
C13_SuccessIffNoErrors ==
    /\ Parsed => (parseResult.success <=> parseResult.errors = <<>>)
    /\ CaughtResult(<<>>).success <=> CaughtResult(<<>>).errors = <<>>

C13_Witness ==
    /\ Parsed
    /\ parseResult.transactions # <<>>
    /\ parseResult.errors # <<>>
    /\ ~parseResult.success

\* the data rows (by line index) that parseRow does not skip
RowsWithRequiredCells(file, cols) ==
    {i \in DataLines(file) : HasRequiredCells(cols, file.lines[i])}

\* C14: parseCSV always returns a result; a row that throws adds an error and
\* the rows after it are still parsed (each row with both required cells
\* gives a transaction or a row error); only missing required columns (or
\* the catch) give the whole-file failure, without transaction and with an
\* error.
C14_NeverThrowsNeverAborts ==
    Parsed =>
        LET cols == ColumnsOf(fileContent)
        IN  /\ DOMAIN parseResult = {"success", "transactions", "errors"}
            /\ RequiredMapped(cols) =>
                  Len(parseResult.transactions) + Len(ErrorsFrom(parseResult, "row"))
                    = Cardinality(RowsWithRequiredCells(fileContent, cols))
            /\ ~RequiredMapped(cols) =>
                  /\ ~parseResult.success
                  /\ parseResult.transactions = <<>>
                  /\ parseResult.errors # <<>>
            /\ CaughtResult(<<>>).transactions = <<>> /\ CaughtResult(<<>>).errors # <<>>

\* a row that throws, on line 2 of the file, followed by a row that parses
C14_Witness ==
    /\ Parsed
    /\ \E k \in 1..Len(parseResult.errors) :
          parseResult.errors[k].from = "row" /\ parseResult.errors[k].row = 2
    /\ Len(fileContent.lines) >= 2
    /\ fileContent.lines[1] # EmptyLine
    /\ parseResult.transactions # <<>>

(***************************************************************************)
(* What the claims about the calls of the categorizer speak of.            *)
(***************************************************************************)
IsCategorizationResult(r) ==
    /\ DOMAIN r = {"category", "subcategory", "confidence", "explanation"}
    /\ r.category.t = "string"
    /\ r.confidence.t = "number"

Threw(call) == call.settled \in {"rejected", "no text"}

\* C15: every call that has settled resolved to a CategorizationResult, and
\* a call whose request threw (the fetch rejected, or reading the body threw)
\* resolved to the rule-based result of its own merchant, description and
\* amount.
C15_AlwaysResolvesThrowFallsBack ==
    \A c \in DOMAIN calls :
        calls[c].pc = "done" =>
            /\ IsCategorizationResult(calls[c].result)
            /\ (Threw(calls[c]) => calls[c].result = RuleBasedFor(calls[c]))

C15_Witness ==
    \E c \in DOMAIN calls :
        /\ calls[c].pc = "done"
        /\ env # {}
        /\ calls[c].settled = "rejected"
        /\ calls[c].args.merchant = WHOLE_FOODS
        /\ calls[c].result.category = JStr(GROCERIES)

\* the requests a call is to have sent once it has started
RequestsFor(keys) ==
    IF keys = {} THEN <<>>
    ELSE IF "ANTHROPIC_API_KEY" \in keys THEN <<ANTHROPIC_URL>>
    ELSE <<OPENAI_URL>>

\* the result of a settled call as its own arguments and its own response
\* give it
OwnResult(call) ==
    IF call.settled = "text" THEN parseCategorizationResponse(call.text.text, call.text.members)
    ELSE IF call.settled = "undefined text" THEN FailedToParse
    ELSE RuleBasedFor(call)

\* C16: a call that has started has sent no request without a credential and
\* otherwise one request, to Anthropic if its key is set and else to OpenAI,
\* also after its request failed and whatever the other calls are doing; the
\* result of a call is given by its own arguments and response.
C16_OneRequestPerCall ==
    \A c \in DOMAIN calls :
        /\ calls[c].pc = "idle" => calls[c].fetched = <<>>
        /\ calls[c].pc # "idle" => calls[c].fetched = RequestsFor(env)
        /\ calls[c].pc = "done" => calls[c].result = OwnResult(calls[c])

C16_Witness ==
    /\ env = {"ANTHROPIC_API_KEY", "OPENAI_API_KEY"}
    /\ \E c, d \in DOMAIN calls :
          /\ c # d
          /\ calls[c].pc = "done" /\ calls[c].settled = "rejected"
          /\ calls[c].fetched = <<ANTHROPIC_URL>>
          /\ calls[d].pc = "awaiting"
          /\ calls[d].args # calls[c].args

(***************************************************************************)
(* What the claims about the rule-based fallback speak of.                 *)
(***************************************************************************)
\* the keyword groups in the order grocery, dining, fuel, subscription
GroupKeywords ==
    <<GROCERY_KEYWORDS, DINING_KEYWORDS, GAS_KEYWORDS, SUBSCRIPTION_KEYWORDS>>

GroupCategory == <<GROCERIES, DINING, TRANSPORT, SUBSCRIPTIONS>>

GroupConfidence == <<Num(7, 1), Num(6, 1), Num(7, 1), Num(8, 1)>>

\* the groups one of whose keywords occurs in the lower-cased text
MatchedGroups(args) ==
    {g \in DOMAIN GroupKeywords :
        IncludesAny(ToLowerCase(args.merchant \o <<" ">> \o args.description),
                    GroupKeywords[g])}

RulesDecide(args, result, matched) ==
    /\ matched # {} =>
          /\ result.category = JStr(GroupCategory[Min(matched)])
          /\ result.confidence = GroupConfidence[Min(matched)]
    /\ (matched = {} /\ IsPositive(args.amount)) =>
          result.category = JStr(INCOME) /\ result.confidence = Num(5, 1)
    /\ (matched = {} /\ ~IsPositive(args.amount)) =>
          result.category = JStr(UNCATEGORIZED) /\ result.confidence = Num(0, 0)

\* C17: the result is the fixed result of the earliest keyword group found
\* in the lower-cased merchant + ' ' + description, whatever the amount; with
\* no group it is Income 0.5 for amount > 0 and else Uncategorized 0; the
\* case of the letters makes no difference.
C17_FirstGroupThenAmount ==
    ruleResult # NoResult =>
        /\ RulesDecide(ruleArgs, ruleResult, MatchedGroups(ruleArgs))
        /\ ruleResult = ruleBasedCategorization(ToLowerCase(ruleArgs.merchant),
                                                ToLowerCase(ruleArgs.description),
                                                ruleArgs.amount)

C17_Witness ==
    /\ ruleResult # NoResult
    /\ ruleArgs.merchant = FOOD_MARKET
    /\ ruleArgs.description = SHELL_CAFE
    /\ ruleArgs.amount = Num(2500, 0)
    /\ ruleResult.category = JStr(GROCERIES)

(***************************************************************************)
(* What the claims about the two dedup keys speak of.                      *)
(***************************************************************************)
\* whether two tuples hold the same values: the same day, the same number,
\* the same merchant and the same description
SameValues(a, b) ==
    /\ Day(LocalFields(NewDate(a.date.v), timeZone)) = Day(LocalFields(NewDate(b.date.v), timeZone))
    /\ a.amount = b.amount
    /\ a.merchant = b.merchant
    /\ a.description = b.description

\* C18 as stated: tuples of the same values get the same key, from the route
\* and from the utility alike.
C18_SameValuesSameKey ==
    (hashKeys # NoResult /\ "utility" \in DOMAIN hashKeys) =>
        \A i, j \in DOMAIN hashArgs :
            SameValues(hashArgs[i], hashArgs[j]) =>
                /\ hashKeys.keys[i] = hashKeys.keys[j]
                /\ hashKeys.utility[i] = hashKeys.utility[j]
                /\ hashKeys.keys[i] = hashKeys.utility[j]

(***************************************************************************)
(* What the claims about the date cells speak of.                          *)
(***************************************************************************)
\* C19 as stated: each of the three cells parses to a date whose day is
\* 2024-01-15 in the zone of the process and in UTC, whatever the zone is.
C19_SameCalendarDayInEveryZone ==
    (cellValue # NoResult /\ Join(cellText) \in {DATE_15, SLASH_DATE_15, DASH_DATE_15}) =>
        /\ cellValue # InvalidDate
        /\ Day(LocalFields(cellValue, timeZone)) = <<2024, 1, 15>>
        /\ Day(UTCFields(cellValue, timeZone)) = <<2024, 1, 15>>

(***************************************************************************)
(* What the claims about the amount cells speak of.                        *)
(***************************************************************************)
RECURSIVE DropSpacesAtStart(_)
DropSpacesAtStart(p) ==
    IF p # <<>> /\ Head(p) = <<" ">> THEN DropSpacesAtStart(Tail(p)) ELSE p

RECURSIVE DropSpacesAtEnd(_)
DropSpacesAtEnd(p) ==
    IF p # <<>> /\ p[Len(p)] = <<" ">> THEN DropSpacesAtEnd(SubSeq(p, 1, Len(p) - 1)) ELSE p

\* the cell without the whitespace around it
Bare(p) == DropSpacesAtEnd(DropSpacesAtStart(p))

Wrapped(p) == Len(p) >= 2 /\ p[1] = <<"(">> /\ p[Len(p)] = <<")">>

Unwrapped(p) == IF Wrapped(p) THEN SubSeq(p, 2, Len(p) - 1) ELSE p

Signed(p) == ~Wrapped(p) /\ p # <<>> /\ p[1] = <<"-">>

RECURSIVE DropCurrency(_)
DropCurrency(p) == IF p # <<>> /\ Head(p) = <<"$">> THEN DropCurrency(Tail(p)) ELSE p

\* what is left after the parentheses, the sign and the currency symbols:
\* the digits with their separators and decimal part
NumeralOf(p) == DropCurrency(IF Signed(p) THEN Tail(p) ELSE Unwrapped(p))

\* digit groups, a thousands separator only between two of them, a decimal
\* part only at the end
IsNumeral(r) ==
    /\ r # <<>>
    /\ r[1] \in DigitPieces
    /\ \A i \in 1..Len(r) :
          \/ r[i] \in DigitPieces
          \/ r[i] = <<",">> /\ 1 < i /\ i < Len(r) /\ r[i - 1] \in DigitPieces
                           /\ r[i + 1] \in DigitPieces
          \/ r[i] = FRACTION_50 /\ i = Len(r)

\* the digits of the numeral, those of the decimal part included
AllDigitsOf(r) == Join(SelectSeq(r, LAMBDA x : x # <<",">> /\ x # FRACTION_50))
                      \o (IF r[Len(r)] = FRACTION_50 THEN <<"5","0">> ELSE <<>>)

\* the number the numeral denotes, without its sign
Magnitude(r) == Num(StrToNat(AllDigitsOf(r)), IF r[Len(r)] = FRACTION_50 THEN 2 ELSE 0)

Negated(n) == Num(0 - n.m, n.e)

Denoted(p) ==
    IF Signed(p) \/ Wrapped(p) THEN Negated(Magnitude(NumeralOf(p)))
    ELSE Magnitude(NumeralOf(p))

MapOf(file) == detectColumnMappings(PapaFields(file))

\* the cell of a row in the column mapped to a field, empty when no column
\* is mapped to it or the row has no such cell
MappedCell(row, map, field) ==
    IF field \in DOMAIN map /\ map[field] \in DOMAIN row THEN row[map[field]] ELSE <<>>

DefaultsApplied(t, m, d) ==
    /\ t.merchant = (IF m = <<>> THEN Unknown ELSE Trim(m))
    /\ t.description = (IF d = <<>> THEN t.merchant ELSE Trim(d))

TransactionsOf(result) == {result.transactions[k] : k \in 1..Len(result.transactions)}

\* C21 as stated: the merchant of a transaction is the trimmed merchant cell,
\* or "Unknown" when no column is mapped to merchant or the cell is empty;
\* its description is the trimmed description cell, or its merchant when no
\* column is mapped to description or the cell is empty.
C21_MerchantAndDescriptionDefaults ==
    Parsed =>
        \A t \in TransactionsOf(parseResult) :
            DefaultsApplied(t, MappedCell(t.rawData, MapOf(fileContent), "merchant"),
                            MappedCell(t.rawData, MapOf(fileContent), "description"))

\* C22 as stated: a row whose date cell is empty, or whose merchant cell is
\* empty, gives no transaction.
C22_RowsWithoutMerchantAreSkipped ==
    Parsed =>
        \A t \in TransactionsOf(parseResult) :
            /\ MappedCell(t.rawData, MapOf(fileContent), "date") # <<>>
            /\ "merchant" \in DOMAIN MapOf(fileContent) =>
                  MappedCell(t.rawData, MapOf(fileContent), "merchant") # <<>>

\* the names that make a header description-like, and those that make it
\* merchant-like without making it description-like
DescriptionNames ==
    {COLUMN_MAPPINGS["description"][k] : k \in 1..Len(COLUMN_MAPPINGS["description"])}

MerchantNames ==
    {COLUMN_MAPPINGS["merchant"][k] : k \in 1..Len(COLUMN_MAPPINGS["merchant"])}
        \ DescriptionNames

HeadersLike(fields, names) ==
    {j \in 1..Len(fields) : \E n \in names : Includes(fields[j], n)}

\* C23 as stated: in a file with no merchant-like header and a
\* description-like header, the merchant and the description of every
\* transaction are the trimmed cell of the description-like column (for the
\* rows where that cell is not empty).
C23_DescriptionColumnSuppliesBoth ==
    Parsed =>
        LET fields == PapaFields(fileContent)
        IN  (HeadersLike(fields, MerchantNames) = {} /\ HeadersLike(fields, DescriptionNames) # {}) =>
                \A t \in TransactionsOf(parseResult) :
                    LET cell == t.rawData[fields[Min(HeadersLike(fields, DescriptionNames))]]
                    IN  cell # <<>> => (t.merchant = Trim(cell) /\ t.description = Trim(cell))

\* the file with its header names in lower case and without the whitespace
\* around them
Canonical(file) ==
    [file EXCEPT !.headers = AsSequence([j \in 1..Len(@) |-> ToLowerCase(Trim(@[j]))])]

\* C24: the column map and the outcome of parseCSV (transactions with their
\* rawData keys, errors) are those of the file with its header names in
\* lower case and trimmed.
C24_HeaderCaseAndSpaceIgnored ==
    Parsed =>
        /\ parseResult = parseCSV(Canonical(fileContent))
        /\ MapOf(fileContent) = MapOf(Canonical(fileContent))

EXTRA_FIELD == <<"e","x","t","r","a"," ","f","i","e","l","d">>

C24_Witness ==
    /\ Parsed
    /\ Canonical(fileContent) # fileContent
    /\ Len(fileContent.headers) = 4
    /\ \E t \in TransactionsOf(parseResult) :
          /\ EXTRA_FIELD \in DOMAIN t.rawData
          /\ t.merchant = <<"S","h","o","p">>

\* C29 as stated: no transaction has an empty merchant or description, or
\* one with whitespace at its start or end.
C29_MerchantNeverEmpty ==
    Parsed =>
        \A t \in TransactionsOf(parseResult) :
            /\ t.merchant # <<>> /\ Trim(t.merchant) = t.merchant
            /\ t.description # <<>> /\ Trim(t.description) = t.description


(***************************************************************************)
(* What the claims about the transactions route speak of.                  *)
(***************************************************************************)
\* the requests of one method that have been answered
Answered(method) ==
    {r \in DOMAIN requests : requests[r].pc = "done" /\ requests[r].method = method}

\* the stored transactions with the key hash that userId owns
OwnedBy(userId, hash) ==
    {i \in DOMAIN dbTransactions :
        dbTransactions[i].hash = hash /\ dbTransactions[i].userId = userId}

\* C25 as stated: a POST is rejected as a duplicate only on account of a
\* transaction of the user who posts it, never of another user's, and a GET
\* lists only transactions of the user who asks.
C25_UsersAreIsolated ==
    /\ \A r \in Answered("POST") :
           requests[r].status = 409 => OwnedBy(requests[r].user, requests[r].hash) # {}
    /\ \A r \in Answered("GET") :
           requests[r].status = 200 =>
               \A i \in DOMAIN requests[r].listed :
                   requests[r].listed[i].userId = UserIdOf(requests[r].userId)

Missing(v) == v = Undefined

\* what an answered POST shows of the order of its checks
C26_Answered ==
    \A r \in Answered("POST") :
        /\ requests[r].status \in {401, 400, 404, 409, 500, 201}
        /\ requests[r].status = 401 <=> ~Truthy(requests[r].userId)
        /\ (/\ Truthy(requests[r].userId)
            /\ \/ Missing(requests[r].body.date)
               \/ Missing(requests[r].body.amount)
               \/ Missing(requests[r].body.merchant))
               => requests[r].status = 400
        /\ requests[r].status \in {400, 404} =>
               requests[r].user = "" /\ requests[r].hash = NoHash
        /\ requests[r].status \in {409, 500, 201} =>
               /\ requests[r].user = UserIdOf(requests[r].userId)
               /\ requests[r].hash = generateHash(requests[r].body.date,
                      requests[r].body.amount, requests[r].body.merchant,
                      requests[r].body.description)

\* the POSTs that this step answers
AnsweredNow ==
    {r \in DOMAIN requests :
        requests[r].pc # "done" /\ requests'[r].pc = "done" /\ requests'[r].method = "POST"}

\* what one step of a POST does to the store
C26_Step ==
    /\ \A r \in AnsweredNow :
           /\ requests'[r].status = 404 =>
                  {u \in dbUsers : u.clerkId = requests'[r].userId} = {}
           /\ requests[r].pc = "findUser" => requests'[r].status = 404
           /\ requests[r].pc = "findExisting" =>
                  requests'[r].status = 409 /\ Existing(requests[r].hash) # {}
           /\ requests'[r].status = 409 => requests[r].pc = "findExisting"
           /\ requests'[r].status = 201 =>
                  /\ Len(dbTransactions') = Len(dbTransactions) + 1
                  /\ SubSeq(dbTransactions', 1, Len(dbTransactions)) = dbTransactions
                  /\ dbTransactions'[Len(dbTransactions')].hash = requests[r].hash
                  /\ dbTransactions'[Len(dbTransactions')].userId = requests[r].user
           /\ requests'[r].status # 201 => dbTransactions' = dbTransactions
    /\ \A r \in DOMAIN requests :
           (requests[r].pc = "findExisting" /\ Existing(requests[r].hash) # {})
               => (requests'[r] = requests[r] \/ requests'[r].status = 409)
    /\ dbTransactions' # dbTransactions =>
           \E r \in AnsweredNow : requests'[r].status = 201

StoredValues(t) == <<t.date, t.amount, t.merchantRaw, t.description>>

\* C27 as stated: the key stored with a transaction is the key of the values
\* stored with it, so that no two stored transactions hold the same date,
\* amount, merchant and description.
C27_KeyIsOfStoredValues ==
    /\ \A i \in DOMAIN dbTransactions :
           dbTransactions[i].hash =
               generateHash(dbTransactions[i].date, dbTransactions[i].amount,
                            dbTransactions[i].merchantRaw, dbTransactions[i].description)
    /\ \A i, j \in DOMAIN dbTransactions :
           StoredValues(dbTransactions[i]) = StoredValues(dbTransactions[j]) => i = j

\* C30 as stated: a POST with a date, a merchant and a number for amount is
\* never answered 400.
C30_ZeroAmountIsNotMissing ==
    \A r \in Answered("POST") :
        (/\ Truthy(requests[r].body.date)
         /\ Truthy(requests[r].body.merchant)
         /\ requests[r].body.amount.t = "number")
            => requests[r].status # 400


(***************************************************************************)
(* What the claim about the taxonomy speaks of.                            *)
(***************************************************************************)
\* the result names a category of the taxonomy and, if it has one, a
\* subcategory of that category, or is 'Uncategorized' without subcategory
InTaxonomy(result) ==
    /\ result.category.t = "string"
    /\ \/ result.category.v = UNCATEGORIZED /\ result.subcategory = Undefined
       \/ \E c \in CATEGORIES :
             /\ result.category.v = c.name
             /\ \/ result.subcategory = Undefined
                \/ /\ result.subcategory.t = "string"
                   /\ result.subcategory.v \in c.subcategories

\* C28 as stated: the result of every call of categorizeTransaction that has
\* settled, from the provider's answer or from the rules, is in the taxonomy.
C28_ResultIsInTaxonomy ==
    \A c \in DOMAIN calls : calls[c].pc = "done" => InTaxonomy(calls[c].result)

====
